---- MODULE Spec2Model ----
(***************************************************************************)
(* Claim-processing pipeline of the insurance agent backend:               *)
(* webhook ingestion, conversation/claim reconciliation, the claim store,  *)
(* the tool-calling agent loop and the per-claim log stream.               *)
(***************************************************************************)
EXTENDS Integers, Sequences, FiniteSets, TLC

VARIABLES
    claims_store,                \* claim_service.claims_store: claim id -> Claim
    claim_files,                 \* data/claims/<id>.json
    conversation_transcriptions, \* main.conversation_transcriptions
    conversation_files,          \* data/conversations/<id>.json
    conversation_to_claim,       \* main.conversation_to_claim
    system_logs,                 \* main.system_logs: claim id -> list of entries
    log_queues,                  \* main.log_queues: claim id -> asyncio.Queue
    agent_outputs,               \* main.agent_outputs: claim id -> UnifiedAgentOutput
    streams,                     \* the event_generator instances of stream_logs
    response,                    \* the HTTP response of the last handler that ran
    restarts,                    \* number of process restarts so far
    ops,                         \* store-changing handler calls so far
    agent,                       \* one process_claim_with_agent run, step by step
    request,                     \* the request the last webhook delivery carried
    inflight                     \* the deliveries whose handler waits for the request body

vars == <<claims_store, claim_files, conversation_transcriptions,
          conversation_files, conversation_to_claim, system_logs, log_queues,
          agent_outputs, streams, response, restarts, ops, agent, request, inflight>>

sysvars == <<claims_store, claim_files, conversation_transcriptions,
             conversation_files, conversation_to_claim, system_logs, log_queues,
             agent_outputs, streams, response, restarts, ops, request, inflight>>

(***************************************************************************)
(* Bounds of the model.                                                    *)
(***************************************************************************)
MaxClaims == 2          \* claim ids that create_claim may allocate
NumConvs == 2           \* external conversation ids
MaxUtter == 3           \* longest transcript array delivered
MaxOps == 3             \* handler calls explored without streams
MaxStreamOps == 3       \* handler calls other than stream_logs explored with streams
MaxStreams == 1         \* stream subscriptions open at a time
MaxSubscribers == 2     \* connection slots: subscriptions open at once for one claim
MaxRestarts == 1        \* process restarts
MaxScriptPrefix == 2    \* freely chosen leading backend responses of a run
MaxDeliveries == 2      \* webhook requests explored with the request head
MaxStoreCalls == 4      \* direct calls of the claim store explored
MaxInflight == 2        \* webhook deliveries in flight at a time

(***************************************************************************)
(* Program constants.                                                      *)
(***************************************************************************)
MinEntries == 3         \* should_process_agent = len(transcript_array) >= 3
max_iterations == 10    \* agent_service: max_iterations = 10

ClaimIds == 1..MaxClaims
ConvIds == 1..NumConvs
StreamIds == 1..MaxSubscribers

NoneStr == "<None>"     \* Python None in a string-valued place
NoConv == 0             \* Python None in a conversation-id-valued place

\* dict[k] = v
Put(f, k, v) == IF k \in DOMAIN f THEN [f EXCEPT ![k] = v] ELSE f @@ (k :> v)

IsPrefix(s, t) == Len(s) <= Len(t) /\ SubSeq(t, 1, Len(s)) = s

(***************************************************************************)
(* Transcript builder (receive_transcription_webhook, lines 496-520).      *)
(* A text is the sequence of its lines; json.dumps(transcript_array) is    *)
(* kept as the dumped array.                                               *)
(***************************************************************************)
ChosenMessageDisplayFirst(entry) ==
    IF entry.message # "" THEN entry.message ELSE entry.original_message

ChosenMessage(entry) ==
    IF entry.original_message # NoneStr THEN entry.original_message ELSE entry.message

SpeakerLabel(role) == IF role = "agent" THEN "Agent" ELSE "User"

RECURSIVE TranscriptionParts(_)
TranscriptionParts(transcript_array) ==
    IF transcript_array = <<>> THEN <<>>
    ELSE LET message == ChosenMessage(Head(transcript_array))
             rest == TranscriptionParts(Tail(transcript_array))
         IN IF message # ""
            THEN <<[label |-> SpeakerLabel(Head(transcript_array).role), text |-> message]>> \o rest
            ELSE rest

NoText == [kind |-> "none", lines |-> <<>>, raw |-> <<>>]

BuildTranscription(transcript_array) ==
    LET transcription_parts == TranscriptionParts(transcript_array)
    IN IF transcription_parts # <<>>
       THEN [kind |-> "lines", lines |-> transcription_parts, raw |-> <<>>]
       ELSE [kind |-> "json", lines |-> <<>>, raw |-> transcript_array]

ShouldProcessAgentWrong(transcript_array) ==
    Len(TranscriptionParts(transcript_array)) >= MinEntries

\* should_process_agent = len(transcript_array) >= 3
ShouldProcessAgent(transcript_array) == Len(transcript_array) >= MinEntries

(***************************************************************************)
(* The in-memory registries and the persisted files, as one value that the *)
(* helpers below transform.                                                *)
(***************************************************************************)
Mem == [claims_store |-> claims_store,
        claim_files |-> claim_files,
        conversation_transcriptions |-> conversation_transcriptions,
        conversation_files |-> conversation_files,
        conversation_to_claim |-> conversation_to_claim,
        system_logs |-> system_logs,
        log_queues |-> log_queues,
        agent_outputs |-> agent_outputs]

SetMem(mem) ==
    \E m \in {mem} :
       /\ claims_store' = m.claims_store
       /\ claim_files' = m.claim_files
       /\ conversation_transcriptions' = m.conversation_transcriptions
       /\ conversation_files' = m.conversation_files
       /\ conversation_to_claim' = m.conversation_to_claim
       /\ system_logs' = m.system_logs
       /\ log_queues' = m.log_queues
       /\ agent_outputs' = m.agent_outputs

(***************************************************************************)
(* Log/Event bus: add_log.                                                 *)
(* An entry's timestamp is its position in the claim's history             *)
(* (datetime.now() read as a strictly increasing clock).  A message is its *)
(* template plus the number and the string formatted into it.              *)
(***************************************************************************)
LogEntry(ts, log_type, message, n, s) ==
    [timestamp |-> ts, type |-> log_type, message |-> message, n |-> n, s |-> s]

\* the None that closes a stream
Sentinel == LogEntry(0, "None", "None", 0, "")

LogsOf(m, claim_id) ==
    IF claim_id \in DOMAIN m.system_logs THEN m.system_logs[claim_id] ELSE <<>>

add_log_no_push(m, claim_id, message, log_type, n, s) ==
    LET log_entry == LogEntry(Len(LogsOf(m, claim_id)) + 1, log_type, message, n, s)
    IN [m EXCEPT !.system_logs = Put(@, claim_id, Append(LogsOf(m, claim_id), log_entry))]

add_log_replace(m, claim_id, message, log_type, n, s) ==
    LET log_entry == LogEntry(Len(LogsOf(m, claim_id)) + 1, log_type, message, n, s)
    IN [m EXCEPT
          !.system_logs = Put(@, claim_id, <<log_entry>>),
          !.log_queues = IF claim_id \in DOMAIN @
                         THEN [@ EXCEPT ![claim_id] = Append(@, log_entry)]
                         ELSE @]

add_log(m, claim_id, message, log_type, n, s) ==
    LET log_entry == LogEntry(Len(LogsOf(m, claim_id)) + 1, log_type, message, n, s)
    IN [m EXCEPT
          !.system_logs = Put(@, claim_id, Append(LogsOf(m, claim_id), log_entry)),
          \* put_nowait on an unbounded Queue: never full, never waits
          !.log_queues = IF claim_id \in DOMAIN @
                         THEN [@ EXCEPT ![claim_id] = Append(@, log_entry)]
                         ELSE @]

(***************************************************************************)
(* Claim store (claim_service).                                            *)
(* uuid4 is a fresh id: the first id no claim file carries.  updated_at is *)
(* a logical clock: the number of writes to the record.                    *)
(***************************************************************************)
NewClaimId(m) == Cardinality(DOMAIN m.claim_files) + 1

NewClaim(claim_id) ==
    [id |-> claim_id,
     full_name |-> NoneStr,
     status |-> "pending",
     transcription |-> NoText,
     conversation_id |-> NoConv,
     updated_at |-> 0]

\* lines 43-54: claim.dict() as JSON, the datetime as its ISO text
IsoFormat(time) == [isoformat |-> time]

ClaimData(claim) == [claim EXCEPT !.updated_at = IsoFormat(@)]

\* save_claim_to_file: the file holds the JSON of claim.dict()
save_claim_to_file(m, claim) == [m EXCEPT !.claim_files = Put(@, claim.id, ClaimData(claim))]

\* load_claim_from_file: Claim(**data) parses the ISO text back
load_claim_from_file(m, claim_id) == [m.claim_files[claim_id] EXCEPT !.updated_at = @.isoformat]

create_claim(m) ==
    LET claim == NewClaim(NewClaimId(m))
    IN save_claim_to_file([m EXCEPT !.claims_store = Put(@, claim.id, claim)], claim)

\* get_claim: memory first, then the file, which is loaded into memory
get_claim_found(m, claim_id) ==
    claim_id \in DOMAIN m.claims_store \/ claim_id \in DOMAIN m.claim_files

get_claim_uncached(m, claim_id) == m

get_claim(m, claim_id) ==
    IF claim_id \in DOMAIN m.claims_store THEN m
    ELSE IF claim_id \in DOMAIN m.claim_files
         THEN [m EXCEPT !.claims_store = Put(@, claim_id, load_claim_from_file(m, claim_id))]
         ELSE m

\* Python None where a claim or a decision record is expected
None == [kind |-> "None"]

\* the value get_claim returns
get_claim_return(m, claim_id) ==
    IF claim_id \in DOMAIN m.claims_store THEN m.claims_store[claim_id]
    ELSE IF claim_id \in DOMAIN m.claim_files THEN load_claim_from_file(m, claim_id)
    ELSE None

MergeFields(claim, kwargs) ==
    [key \in DOMAIN claim |-> IF key \in DOMAIN kwargs THEN kwargs[key] ELSE claim[key]]

update_claim_unsaved(m, claim_id, kwargs) ==
    IF claim_id \notin DOMAIN m.claims_store THEN m
    ELSE LET merged == MergeFields(m.claims_store[claim_id], kwargs)
             claim == [merged EXCEPT !.updated_at = @ + 1]
         IN [m EXCEPT !.claims_store = Put(@, claim_id, claim)]

\* update_claim: only a cached claim is updated; unknown keys are ignored
update_claim(m, claim_id, kwargs) ==
    IF claim_id \notin DOMAIN m.claims_store THEN m
    ELSE LET merged == MergeFields(m.claims_store[claim_id], kwargs)
             claim == [merged EXCEPT !.updated_at = @ + 1]
         IN save_claim_to_file([m EXCEPT !.claims_store = Put(@, claim_id, claim)], claim)

(***************************************************************************)
(* Tools of the agent.  The datasets of sample_policies.json are not part  *)
(* of the sources; a small dataset stands for them.  Names and cities are  *)
(* lower-cased atoms, and "x in y" is read on them as equality.            *)
(***************************************************************************)
Policies == <<[policyholder_name |-> "ana"], [policyholder_name |-> "rui"]>>
Garages == <<[name |-> "g1", location |-> "lisbon"], [name |-> "g2", location |-> "porto"]>>

Lower(s) == CASE s = "Ana" -> "ana" [] s = "Lisbon" -> "lisbon" [] OTHER -> s

\* policy lookup by name: a match, else the first policy of the dataset
get_policy_coverage(policy_holder_name) ==
    LET hits == SelectSeq(Policies, LAMBDA p: p.policyholder_name = Lower(policy_holder_name))
    IN IF hits # <<>> THEN <<Head(hits)>> ELSE <<Head(Policies)>>

\* get_garages: garages whose location holds the city, else all garages
get_garages(city) ==
    LET matching_garages == SelectSeq(Garages, LAMBDA g: Lower(city) = g.location)
    IN IF matching_garages # <<>> THEN matching_garages ELSE Garages

(***************************************************************************)
(* Backend responses: response.choices[0].message, or a raised API error.  *)
(***************************************************************************)
NoContent == [kind |-> "none"]

Decision(full_name, covered, confidence, action_type) ==
    [kind |-> "decision",
     output |-> [full_name |-> full_name,
                 coverage_covered |-> covered,
                 coverage_confidence |-> confidence,   \* in hundredths
                 action_type |-> action_type]]

DecisionA == Decision("Ana", TRUE, 90, "tow")
DecisionB == Decision("", FALSE, 0, "dispatch_taxi")
\* JSON with every field of UnifiedAgentOutput and a confidence of 1.5, of -0.2:
\* coverage_confidence is declared "float = 0.0", any float validates
DecisionOver == Decision("Ana", TRUE, 150, "tow")
DecisionNegative == Decision("Ana", FALSE, -20, "dispatch_taxi")
NotJson == [kind |-> "not_json"]        \* json.loads raises JSONDecodeError
BadSchema == [kind |-> "bad_schema"]    \* UnifiedAgentOutput(**final_output) raises

Contents == {DecisionA, DecisionB, DecisionOver, DecisionNegative, NotJson, BadSchema}

ToolCall(id, name, arg) == [id |-> id, name |-> name, arg |-> arg]
CallPolicy == ToolCall(1, "get_policy_coverage", "Ana")
CallGarages == ToolCall(2, "get_garages", "Faro")
CallUnknown == ToolCall(3, "get_weather", "Lisbon")
CallBadArgs == ToolCall(4, "get_garages", NoneStr)   \* arguments are not the JSON asked for

ToolCallLists ==
    {<<CallPolicy>>, <<CallGarages, CallUnknown>>, <<CallUnknown, CallPolicy>>,
     <<CallUnknown, CallBadArgs, CallPolicy>>}

Response(raises, tool_calls, content) ==
    [raises |-> raises, tool_calls |-> tool_calls, content |-> content]

Responses ==
    {Response(FALSE, tc, NoContent) : tc \in ToolCallLists}
    \cup {Response(FALSE, <<>>, c) : c \in Contents}
    \cup {Response(FALSE, <<CallPolicy>>, DecisionA),
          Response(FALSE, <<>>, NoContent),
          Response(TRUE, <<>>, NoContent)}

\* A backend: its first responses, then one response repeated for ever.
Script(api_key, prefix, tail) == [api_key |-> api_key, prefix |-> prefix, tail |-> tail]

ResponseAt(script, k) ==
    IF k <= Len(script.prefix) THEN script.prefix[k] ELSE script.tail

RECURSIVE SeqsUpTo(_, _)
SeqsUpTo(S, n) ==
    IF n = 0 THEN {<<>>}
    ELSE LET shorter == SeqsUpTo(S, n - 1)
         IN shorter \cup {Append(s, x) : s \in shorter, x \in S}

Scripts ==
    {Script(TRUE, p, t) : p \in SeqsUpTo(Responses, MaxScriptPrefix), t \in Responses}
    \cup {Script(FALSE, <<>>, Response(TRUE, <<>>, NoContent))}

(***************************************************************************)
(* Agent orchestrator: process_claim_with_agent, one loop round per step.  *)
(***************************************************************************)
Msg(role, content, tool_calls, tool_call_id) ==
    [role |-> role, content |-> content, tool_calls |-> tool_calls, tool_call_id |-> tool_call_id]

Log(message, log_type, n, s) == [message |-> message, type |-> log_type, n |-> n, s |-> s]

AgentIdle ==
    [pc |-> "idle", script |-> Script(TRUE, <<>>, Response(TRUE, <<>>, NoContent)),
     iteration |-> 0, tools_used |-> FALSE, messages |-> <<>>,
     requests |-> 0, modes |-> <<>>, logs |-> <<>>, discards |-> 0,
     output |-> NoContent, error |-> ""]

\* except Exception as e: log(...); raise
AgentRaise(a, error) ==
    [a EXCEPT !.pc = "raised", !.error = error,
              !.logs = Append(@, Log("Error in agent processing", "error", 0, error))]

AgentAfterLoopStays(a) == a

\* after the loop: the ceiling message and ValueError
AgentAfterLoop(a) ==
    AgentRaise([a EXCEPT !.logs = Append(@, Log("Agent exceeded maximum iterations", "error", max_iterations, ""))],
               "Agent processing exceeded maximum iterations")

AgentBegin(script, transcription) ==
    LET a0 == [AgentIdle EXCEPT !.script = script,
                                !.logs = <<Log("Starting unified agent processing", "info", 0, "")>>]
    IN IF ~script.api_key
       THEN AgentRaise(a0, "OPENAI_API_KEY not found in environment variables")
       ELSE [a0 EXCEPT
               !.pc = "loop",
               !.messages = <<Msg("system", [kind |-> "system_prompt"], <<>>, 0),
                              Msg("user", [kind |-> "user_prompt", transcription |-> transcription], <<>>, 0)>>,
               !.logs = Append(@, Log("Sending initial request to OpenAI agent", "info", 0, ""))]

ExecuteToolCallStrict(a, tool_call) ==
    IF tool_call.arg = NoneStr \/ tool_call.name \notin {"get_policy_coverage", "get_garages"}
    THEN AgentRaise(a, "Unknown function")
    ELSE [a EXCEPT !.messages =
             Append(@, Msg("tool", [kind |-> "tool_result",
                                    result |-> [kind |-> "garages", value |-> get_garages(tool_call.arg)]],
                           <<>>, tool_call.id))]

\* one tool call of the for loop: the state after it, or the raise
ExecuteToolCall(a, tool_call) ==
    IF tool_call.arg = NoneStr
    THEN AgentRaise(a, "bad tool arguments")
    ELSE LET called == [a EXCEPT !.logs = Append(@, Log("Calling tool", "info", 0, tool_call.name))]
             result == CASE tool_call.name = "get_policy_coverage" ->
                               [kind |-> "policy", value |-> get_policy_coverage(tool_call.arg)]
                         [] tool_call.name = "get_garages" ->
                               [kind |-> "garages", value |-> get_garages(tool_call.arg)]
                         [] OTHER -> [kind |-> "error", value |-> <<>>]
             logged == CASE tool_call.name = "get_policy_coverage" ->
                               IF result.value # <<>>
                               THEN Log("Policy found", "success", 0, tool_call.arg)
                               ELSE Log("No policy found", "warning", 0, tool_call.arg)
                         [] tool_call.name = "get_garages" ->
                               Log("Found garage(s)", "info", Len(result.value), tool_call.arg)
                         [] OTHER -> Log("Unknown function called", "error", 0, tool_call.name)
         IN [called EXCEPT
               !.logs = Append(@, logged),
               !.messages = Append(@, Msg("tool", [kind |-> "tool_result", result |-> result],
                                          <<>>, tool_call.id))]

ExecuteToolCallsFirstOnly(a, tool_calls) == ExecuteToolCall(a, Head(tool_calls))

RECURSIVE ExecuteToolCalls(_, _)
ExecuteToolCalls(a, tool_calls) ==
    IF tool_calls = <<>> \/ a.pc # "loop" THEN a
    ELSE ExecuteToolCalls(ExecuteToolCall(a, Head(tool_calls)), Tail(tool_calls))

LoopContinuesOffByOne(a) == a.iteration <= max_iterations

\* while iteration < max_iterations
LoopContinues(a) == a.iteration < max_iterations

RequestModeByIteration(a) == IF a.iteration > 0 THEN "final" ELSE "tool"

\* the round's request mode: structured outputs once tools_used is set
RequestMode(a) == IF a.tools_used THEN "final" ELSE "tool"

DiscardResponseCounted(got) ==
    [got EXCEPT
       !.logs = Append(@, Log("Agent returned response without tools, retrying with structured outputs", "info", 0, "")),
       !.tools_used = TRUE,
       !.messages = SubSeq(@, 1, Len(@) - 1),
       !.discards = @ + 1]

DiscardResponseReturning(got) ==
    [got EXCEPT !.pc = "returned", !.output = got.messages[Len(got.messages)].content]

\* lines 241-247: a first content response without tools is dropped
DiscardResponse(got) ==
    [got EXCEPT
       !.logs = Append(@, Log("Agent returned response without tools, retrying with structured outputs", "info", 0, "")),
       !.tools_used = TRUE,
       !.messages = SubSeq(@, 1, Len(@) - 1),
       !.iteration = @ - 1,
       !.discards = @ + 1]

\* one evaluation of the while condition and, if it holds, one loop round
AgentStep(a, resp) ==
    IF ~LoopContinues(a) THEN AgentAfterLoop(a)
    ELSE
    LET iter == a.iteration + 1
        l1 == Append(a.logs, Log("Agent iteration", "info", iter, ""))
        l2 == IF a.tools_used
              THEN Append(l1, Log("Using structured outputs for final response", "info", 0, ""))
              ELSE l1
        asked == [a EXCEPT !.iteration = iter, !.logs = l2,
                           !.requests = @ + 1, !.modes = Append(@, RequestMode(a))]
    IN
    IF resp.raises THEN AgentRaise(asked, "backend error")
    ELSE
    LET got == [asked EXCEPT !.messages = Append(@, Msg("assistant", resp.content, resp.tool_calls, 0))]
    IN
    IF resp.tool_calls # <<>>
    THEN ExecuteToolCalls(
            [got EXCEPT !.tools_used = TRUE,
                        !.logs = Append(@, Log("Agent requesting tool call(s)", "info", Len(resp.tool_calls), ""))],
            resp.tool_calls)
    ELSE IF resp.content # NoContent /\ ~got.tools_used
    THEN DiscardResponse(got)
    ELSE IF resp.content # NoContent
    THEN LET parsing == [got EXCEPT !.logs = Append(@, Log("Agent completed processing, parsing final output", "info", 0, ""))]
         IN CASE resp.content.kind = "not_json" ->
                   AgentRaise([parsing EXCEPT !.logs = @ \o <<Log("Failed to parse agent output as JSON", "error", 0, ""),
                                                             Log("Raw output", "error", 0, "")>>],
                              "Agent output is not valid JSON")
              [] resp.content.kind = "bad_schema" ->
                   AgentRaise([parsing EXCEPT !.logs = Append(@, Log("Successfully parsed agent output", "success", 0, ""))],
                              "validation error")
              [] OTHER ->
                   [parsing EXCEPT !.pc = "returned",
                                   !.output = resp.content,
                                   !.logs = Append(@, Log("Successfully parsed agent output", "success", 0, ""))]
    ELSE AgentAfterLoop([got EXCEPT !.logs = Append(@, Log("Agent finished without content", "warning", 0, ""))])

RECURSIVE RunFrom(_)
RunFrom(a) ==
    IF a.pc # "loop" THEN a
    ELSE RunFrom(AgentStep(a, ResponseAt(a.script, a.requests + 1)))

\* a whole run of process_claim_with_agent against one backend
RunAgent(script, transcription) == RunFrom(AgentBegin(script, transcription))

(***************************************************************************)
(* Inputs of the system specification.                                     *)
(***************************************************************************)
Entry(role, message, original_message) ==
    [role |-> role, message |-> message, original_message |-> original_message]

Utterance(i) ==
    IF i % 2 = 1 THEN Entry("agent", "How can I help?", NoneStr)
    ELSE Entry("user", "My car broke...", "My car broke down in Lisbon")

EmptyUtterance == Entry("user", "", NoneStr)

\* the first k utterances, the last one without text if e = k
TranscriptOf(k, e) == [i \in 1..k |-> IF i = e THEN EmptyUtterance ELSE Utterance(i)]

\* one record short of the gate with an empty record, exactly MinEntries
\* records, and MaxUtter records the last of which is empty
SysTranscripts ==
    {TranscriptOf(MinEntries - 1, MinEntries - 1), TranscriptOf(MinEntries, 0),
     TranscriptOf(MaxUtter, MaxUtter)}

SysScripts ==
    {Script(TRUE, <<>>, Response(FALSE, <<>>, DecisionA)),
     Script(TRUE, <<Response(FALSE, <<CallPolicy>>, NoContent)>>, Response(FALSE, <<>>, DecisionB)),
     Script(TRUE, <<>>, Response(TRUE, <<>>, NoContent))}

\* the JSON body of an answer that carries more than the fields below
NoBody == [kind |-> "no_body"]

MkResponse(op, code, status, conversation_id, claim_id, processed, logs) ==
    [op |-> op, code |-> code, status |-> status, conversation_id |-> conversation_id,
     claim_id |-> claim_id, processed |-> processed, logs |-> logs, body |-> NoBody]

NoResponse == MkResponse("none", 0, "", NoConv, 0, FALSE, <<>>)

FreeStream ==
    [pc |-> "free", claim_id |-> 0, pos |-> 0, out |-> <<>>, n0 |-> 0,
     after_cancel |-> FALSE]

(***************************************************************************)
(* receive_transcription_webhook, from the parsed body on.  The handler    *)
(* has no suspension point after the body is read (the backend client is   *)
(* the blocking one and the queue is unbounded), so it is one step.        *)
(***************************************************************************)
\* log_callback: every log of the run goes through add_log
\* (add_log once for each entry, in order, written as its combined effect)
AddLogs(m, claim_id, logs) ==
    LET earlier == LogsOf(m, claim_id)
        entries == [i \in 1..Len(logs) |->
                       LogEntry(Len(earlier) + i, logs[i].type, logs[i].message, logs[i].n, logs[i].s)]
    IN IF logs = <<>> THEN m
       ELSE [m EXCEPT
               !.system_logs = Put(@, claim_id, earlier \o entries),
               !.log_queues = IF claim_id \in DOMAIN @
                              THEN [@ EXCEPT ![claim_id] = @ \o entries]
                              ELSE @]

\* lines 528-558: the conversation in memory and in its file
StoreConversation(m, conversation_id, transcript_array) ==
    LET transcription_text == BuildTranscription(transcript_array)
    IN [m EXCEPT
          !.conversation_transcriptions =
              Put(@, conversation_id, [conversation_id |-> conversation_id,
                                       transcription |-> transcription_text]),
          !.conversation_files =
              Put(@, conversation_id, [conversation_id |-> conversation_id,
                                       transcription |-> transcription_text,
                                       raw_transcript |-> transcript_array])]

ReconcileAlwaysCreate(m, conversation_id, transcript_array) ==
    LET transcription_text == BuildTranscription(transcript_array)
        claim_id == NewClaimId(m)
        created == add_log(create_claim(m), claim_id, "Claim created for conversation", "info", conversation_id, "")
        updated == update_claim(created, claim_id,
                                [transcription |-> transcription_text,
                                 status |-> "processing",
                                 conversation_id |-> conversation_id])
    IN [updated EXCEPT !.conversation_to_claim = Put(@, conversation_id, claim_id)]

ReconcileKeepTranscript(m, conversation_id, transcript_array) ==
    IF conversation_id \in DOMAIN m.conversation_to_claim
    THEN add_log(update_claim(m, m.conversation_to_claim[conversation_id], [status |-> "processing"]),
                 m.conversation_to_claim[conversation_id],
                 "Claim updated with new transcription", "info", Len(transcript_array), "")
    ELSE ReconcileAlwaysCreate(m, conversation_id, transcript_array)

\* lines 560-583: the identity reconciler
Reconcile(m, conversation_id, transcript_array) ==
    LET transcription_text == BuildTranscription(transcript_array)
    IN IF conversation_id \in DOMAIN m.conversation_to_claim
       THEN LET claim_id == m.conversation_to_claim[conversation_id]
            IN add_log(update_claim(m, claim_id,
                                    [transcription |-> transcription_text,
                                     status |-> "processing"]),
                       claim_id, "Claim updated with new transcription", "info", Len(transcript_array), "")
       ELSE LET claim_id == NewClaimId(m)
                created == add_log(create_claim(m), claim_id, "Claim created for conversation", "info", conversation_id, "")
                updated == update_claim(created, claim_id,
                                        [transcription |-> transcription_text,
                                         status |-> "processing",
                                         conversation_id |-> conversation_id])
            IN [updated EXCEPT !.conversation_to_claim = Put(@, conversation_id, claim_id)]

\* await log_queues[claim_id].put(None)
PutSentinel(m, claim_id) ==
    IF claim_id \in DOMAIN m.log_queues
    THEN [m EXCEPT !.log_queues[claim_id] = Append(@, Sentinel)]
    ELSE m

ProcessWithAgentSilent(m, claim_id, script, transcription_text) ==
    LET started == add_log(m, claim_id, "Starting unified agent processing...", "info", 0, "")
        run == RunAgent(script, transcription_text)
        logged == AddLogs(started, claim_id, run.logs)
    IN IF run.pc = "returned"
       THEN LET stored == [logged EXCEPT !.agent_outputs = Put(@, claim_id, run.output.output)]
                updated == update_claim(stored, claim_id,
                                        [full_name |-> run.output.output.full_name,
                                         status |-> "processing"])
                done == add_log(updated, claim_id, "Agent processing completed successfully", "success", 0, "")
            IN PutSentinel(done, claim_id)
       ELSE logged

ProcessWithAgentKeepFirst(m, claim_id, script, transcription_text) ==
    LET done == ProcessWithAgentSilent(m, claim_id, script, transcription_text)
    IN IF claim_id \in DOMAIN m.agent_outputs
       THEN [done EXCEPT !.agent_outputs = m.agent_outputs]
       ELSE done

ProcessWithAgentSuspended(m, claim_id, script, transcription_text) ==
    add_log(m, claim_id, "Starting unified agent processing...", "info", 0, "")

ProcessWithAgentDeciding(m, claim_id, script, transcription_text) ==
    LET started == add_log(m, claim_id, "Starting unified agent processing...", "info", 0, "")
        run == RunAgent(script, transcription_text)
        logged == AddLogs(started, claim_id, run.logs)
    IN IF run.pc = "returned"
       THEN LET stored == [logged EXCEPT !.agent_outputs = Put(@, claim_id, run.output.output)]
                updated == update_claim(stored, claim_id,
                                        [full_name |-> run.output.output.full_name,
                                         status |-> IF run.output.output.coverage_covered
                                                    THEN "covered" ELSE "denied"])
                done == add_log(updated, claim_id, "Agent processing completed successfully", "success", 0, "")
            IN PutSentinel(done, claim_id)
       ELSE add_log(logged, claim_id, "Agent processing failed", "error", 0, run.error)

\* lines 597-631: the run and what the handler does with its outcome
ProcessWithAgent(m, claim_id, script, transcription_text) ==
    LET started == add_log(m, claim_id, "Starting unified agent processing...", "info", 0, "")
        run == RunAgent(script, transcription_text)
        logged == AddLogs(started, claim_id, run.logs)
    IN IF run.pc = "returned"
       THEN LET stored == [logged EXCEPT !.agent_outputs = Put(@, claim_id, run.output.output)]
                updated == update_claim(stored, claim_id,
                                        [full_name |-> run.output.output.full_name,
                                         status |-> "processing"])
                done == add_log(updated, claim_id, "Agent processing completed successfully", "success", 0, "")
            IN PutSentinel(done, claim_id)
       ELSE add_log(logged, claim_id, "Agent processing failed", "error", 0, run.error)

\* the state the handler leaves
WebhookResult(m, conversation_id, transcript_array, script) ==
    LET stored == StoreConversation(m, conversation_id, transcript_array)
        reconciled == Reconcile(stored, conversation_id, transcript_array)
        claim_id == reconciled.conversation_to_claim[conversation_id]
    IN IF ~ShouldProcessAgent(transcript_array)
       THEN add_log(reconciled, claim_id, "Waiting for complete transcript", "info", Len(transcript_array), "")
       ELSE ProcessWithAgent(reconciled, claim_id, script, BuildTranscription(transcript_array))

\* lines 490-633: the handler from the extracted conversation id on
HandleDelivery(conversation_id, transcript_array, script) ==
    \E m \in {WebhookResult(Mem, conversation_id, transcript_array, script)} :
    LET claim_id == m.conversation_to_claim[conversation_id]
    IN /\ conversation_id \in DOMAIN conversation_to_claim \/ NewClaimId(Mem) <= MaxClaims
       /\ ops' = ops + 1
       /\ SetMem(m)
       /\ response' = MkResponse("webhook", 200, "received", conversation_id, claim_id,
                                 ShouldProcessAgent(transcript_array), <<>>)
       /\ UNCHANGED <<streams, restarts, agent>>

(***************************************************************************)
(* The request of a delivery and the head of the handler (lines 425-488):  *)
(* signature check, JSON parsing, webhook type, conversation id.           *)
(* A header is the list of its comma-separated parts; a text is tagged     *)
(* with what int() and truth testing make of it.                           *)
(***************************************************************************)
NoSecret == "<unset>"          \* os.getenv(...) is None
WebhookSecret == "whsec"
OtherSecret == "other"

NoneText == [kind |-> "none", n |-> 0]
EmptyText == [kind |-> "empty", n |-> 0]
Letters == [kind |-> "letters", n |-> 0]
Digits(n) == [kind |-> "digits", n |-> n]

\* "if x:" on an optional string
Truthy(text) == text.kind \notin {"none", "empty"}

HeaderPart(key, value) == [key |-> key, value |-> value]

\* the request body as sent: JSON text of an object or of an array, or no JSON
JsonObject(webhook_type, data_conversation_id, conversation_id, transcript) ==
    [text |-> "object", type |-> webhook_type, data_conversation_id |-> data_conversation_id,
     conversation_id |-> conversation_id, transcript |-> transcript]

JsonArray == [JsonObject("", NoConv, NoConv, <<>>) EXCEPT !.text = "array"]
NotJsonBody == [JsonObject("", NoConv, NoConv, <<>>) EXCEPT !.text = "garbage"]

Request(secret, header, raw) == [secret |-> secret, header |-> header, raw |-> raw]

NoRequest == Request(NoSecret, <<>>, NotJsonBody)

\* int(time.time()) at the time of the call, and the 30 * 60 of line 447
Now == 10000
ToleranceSeconds == 1800

\* hmac.new(secret, f"{timestamp}.{body}", sha256).hexdigest(): its value is
\* determined by the key and the signed payload, and differs when they differ
HmacSha256(secret, timestamp, raw) ==
    [kind |-> "mac", key |-> secret, signed_payload |-> <<timestamp, raw>>]

\* lines 434-442: the last v0= part and the last t= part
RECURSIVE ParseSignatureHeader(_, _)
ParseSignatureHeader(signature_parts, parsed) ==
    IF signature_parts = <<>> THEN parsed
    ELSE LET part == Head(signature_parts)
         IN ParseSignatureHeader(Tail(signature_parts),
                IF part.key = "v0" THEN [parsed EXCEPT !.signature = part.value]
                ELSE IF part.key = "t" THEN [parsed EXCEPT !.timestamp = part.value]
                ELSE parsed)

TimestampTooOldTwoSided(timestamp) ==
    timestamp < Now - ToleranceSeconds \/ timestamp > Now + ToleranceSeconds

\* line 448: int(timestamp) < tolerance
TimestampTooOld(timestamp) == timestamp < Now - ToleranceSeconds

HTTPException(status_code, detail) ==
    [type |-> "HTTPException", status_code |-> status_code, detail |-> detail]

OtherException(type) == [type |-> type, status_code |-> 0, detail |-> type]

Raise(exc) ==
    [kind |-> "raise", exc |-> exc, checked |-> FALSE, conversation_id |-> NoConv, transcript_array |-> <<>>]

VerificationOfEveryRequest(req) ==
    LET parsed == ParseSignatureHeader(req.header, [signature |-> NoneText, timestamp |-> NoneText])
    IN IF parsed.timestamp.kind # "digits" THEN "ValueError"
       ELSE IF TimestampTooOld(parsed.timestamp.n) THEN "stale"
       ELSE IF parsed.signature # HmacSha256(req.secret, parsed.timestamp, req.raw) THEN "mismatch"
       ELSE "verified"

VerificationOnEitherPart(req) ==
    IF req.secret # NoSecret /\ req.header # <<>>
    THEN LET parsed == ParseSignatureHeader(req.header, [signature |-> NoneText, timestamp |-> NoneText])
         IN IF Truthy(parsed.signature) \/ Truthy(parsed.timestamp)
            THEN IF parsed.timestamp.kind # "digits" THEN "ValueError"
                 ELSE IF TimestampTooOld(parsed.timestamp.n) THEN "stale"
                 ELSE IF parsed.signature # HmacSha256(req.secret, parsed.timestamp, req.raw)
                      THEN "mismatch"
                      ELSE "verified"
            ELSE "unchecked"
    ELSE "unchecked"

\* lines 430-472: what the signature block does before the body is parsed
Verification(req) ==
    IF req.secret # NoSecret /\ req.header # <<>>
    THEN LET parsed == ParseSignatureHeader(req.header, [signature |-> NoneText, timestamp |-> NoneText])
         IN IF Truthy(parsed.signature) /\ Truthy(parsed.timestamp)
            THEN IF parsed.timestamp.kind # "digits" THEN "ValueError"
                 ELSE IF TimestampTooOld(parsed.timestamp.n) THEN "stale"
                 ELSE IF parsed.signature # HmacSha256(req.secret, parsed.timestamp, req.raw)
                      THEN "mismatch"
                      ELSE "verified"
            ELSE "unchecked"
    ELSE "unchecked"

\* data.get("conversation_id") or body.get("conversation_id")
ExtractConversationId(body) ==
    IF body.data_conversation_id # NoConv THEN body.data_conversation_id ELSE body.conversation_id

\* lines 466-488: json.loads / request.json(), the type and the conversation id
ParseBody(req, checked) ==
    IF req.raw.text = "garbage" THEN Raise(OtherException("JSONDecodeError"))
    ELSE IF req.raw.text = "array" THEN Raise(OtherException("AttributeError"))
    ELSE IF req.raw.type # "post_call_transcription"
         THEN [Raise(OtherException("")) EXCEPT !.kind = "ignored", !.checked = checked]
    ELSE IF ExtractConversationId(req.raw) = NoConv
         THEN Raise(HTTPException(400, "conversation_id is required in webhook payload"))
    ELSE [kind |-> "process", exc |-> OtherException(""), checked |-> checked,
          conversation_id |-> ExtractConversationId(req.raw),
          transcript_array |-> req.raw.transcript]

\* the try block up to line 488
TryBlock(req) ==
    LET verification == Verification(req)
    IN IF verification = "ValueError" THEN Raise(OtherException("ValueError"))
       ELSE IF verification = "stale" THEN Raise(HTTPException(401, "Webhook timestamp too old"))
       ELSE IF verification = "mismatch" THEN Raise(HTTPException(401, "Invalid webhook signature"))
       ELSE ParseBody(req, verification = "verified")

ExceptClausesPassHTTP(exc) ==
    IF exc.type = "JSONDecodeError" THEN HTTPException(400, "Invalid JSON payload")
    ELSE IF exc.type = "HTTPException" THEN exc
    ELSE HTTPException(500, exc.detail)

\* lines 635-642: JSONDecodeError becomes 400, every other Exception 500
ExceptClauses(exc) ==
    IF exc.type = "JSONDecodeError" THEN HTTPException(400, "Invalid JSON payload")
    ELSE HTTPException(500, exc.detail)

\* an error response carries its detail where a result carries its status
ErrorResponse(exc) == MkResponse("webhook", exc.status_code, exc.detail, NoConv, 0, FALSE, <<>>)

\* line 481: a webhook of another type is acknowledged and dropped
IgnoredResponse == MkResponse("webhook", 200, "received", NoConv, 0, FALSE, <<>>)

AnswerStoringFirst(req, script) ==
    \E outcome \in {TryBlock(req)} :
       IF outcome.kind = "process"
       THEN HandleDelivery(outcome.conversation_id, outcome.transcript_array, script)
       ELSE /\ ops' = ops + 1
            /\ response' = IF outcome.kind = "ignored" THEN IgnoredResponse
                           ELSE ErrorResponse(ExceptClauses(outcome.exc))
            /\ SetMem(IF req.raw.text = "object" /\ ExtractConversationId(req.raw) # NoConv
                      THEN StoreConversation(Mem, ExtractConversationId(req.raw), req.raw.transcript)
                      ELSE Mem)
            /\ UNCHANGED <<streams, restarts, agent>>

\* what the handler does with a request and answers to it
Answer(req, script) ==
    \E outcome \in {TryBlock(req)} :
       IF outcome.kind = "process"
       THEN HandleDelivery(outcome.conversation_id, outcome.transcript_array, script)
       ELSE /\ ops' = ops + 1
            /\ response' = IF outcome.kind = "ignored" THEN IgnoredResponse
                           ELSE ErrorResponse(ExceptClauses(outcome.exc))
            /\ UNCHANGED <<claims_store, claim_files, conversation_transcriptions,
                           conversation_files, conversation_to_claim, system_logs,
                           log_queues, agent_outputs, streams, restarts, agent>>

\* receive_transcription_webhook, the whole handler
ReceiveWebhookRequest(req, script) ==
    request' = req /\ Answer(req, script) /\ UNCHANGED inflight

\* a post_call_transcription delivery where no secret is configured
PlainRequest(conversation_id, transcript_array) ==
    Request(NoSecret, <<>>,
            JsonObject("post_call_transcription", conversation_id, NoConv, transcript_array))

ReceiveTranscriptionWebhook(conversation_id, transcript_array, script) ==
    ReceiveWebhookRequest(PlainRequest(conversation_id, transcript_array), script)

(***************************************************************************)
(* Deliveries in flight.  The handler is a coroutine on one event loop: it *)
(* can be suspended only where it awaits.  Its awaits are request.body()   *)
(* or request.json() (lines 452-472), process_claim_with_agent (line 600), *)
(* which awaits nothing itself (the OpenAI client is the blocking one),    *)
(* and put on an unbounded queue (line 621), which never waits.  So a      *)
(* delivery is two steps: up to the await of the body, and from the body   *)
(* to the answer.                                                          *)
(***************************************************************************)
Slots == 1..MaxInflight

IdleDelivery ==
    [pc |-> "idle", req |-> NoRequest, script |-> AgentIdle.script,
     unmapped |-> FALSE, branch |-> "", answer |-> NoResponse]

NoInflight == [slot \in Slots |-> IdleDelivery]

\* the conversation id of the request a handler holds
ConversationOf(req) ==
    IF req.raw.text = "object" THEN ExtractConversationId(req.raw) ELSE NoConv

\* lines 404-472: the handler from its call to the await of the body;
\* unmapped records whether the conversation had a claim at that time
Arrive(slot, req, script) ==
    /\ inflight[slot].pc = "idle"
    /\ inflight' = [inflight EXCEPT ![slot] =
                       [IdleDelivery EXCEPT
                          !.pc = "await_body", !.req = req, !.script = script,
                          !.unmapped = ConversationOf(req) \notin DOMAIN conversation_to_claim]]
    /\ UNCHANGED <<claims_store, claim_files, conversation_transcriptions,
                   conversation_files, conversation_to_claim, system_logs, log_queues,
                   agent_outputs, streams, response, restarts, ops, agent, request>>

\* the reconciliation branch (line 563) a handler resumed now takes
BranchOf(req) ==
    IF ConversationOf(req) \in DOMAIN conversation_to_claim THEN "update" ELSE "create"

\* lines 452-634: the body is there, the handler runs to its answer
Resume(slot) ==
    /\ inflight[slot].pc = "await_body"
    /\ request' = inflight[slot].req
    /\ Answer(inflight[slot].req, inflight[slot].script)
    /\ inflight' = [inflight EXCEPT ![slot] =
                       [@ EXCEPT !.pc = "done",
                                 !.branch = BranchOf(inflight[slot].req),
                                 !.answer = response']]

(***************************************************************************)
(* get_claim_from_conversation.                                            *)
(***************************************************************************)
\* lines 742-773: a claim created from the saved conversation file
RecoverFromFile(m, conversation_id) ==
    LET new_claim_id == NewClaimId(m)
        updated == update_claim(create_claim(m), new_claim_id,
                                [transcription |-> m.conversation_files[conversation_id].transcription,
                                 conversation_id |-> conversation_id,
                                 status |-> "pending"])
        mapped == [updated EXCEPT !.conversation_to_claim = Put(@, conversation_id, new_claim_id)]
    IN add_log(mapped, new_claim_id, "Claim created on-demand from saved conversation file", "info", 0, "")

GetClaimFromConversation(conversation_id) ==
    LET cached == {cid \in DOMAIN claims_store : claims_store[cid].conversation_id = conversation_id}
    IN /\ ops' = ops + 1
       /\ UNCHANGED <<streams, restarts, agent, request, inflight>>
       /\ IF conversation_id \in DOMAIN conversation_to_claim
          THEN /\ response' = MkResponse("conversation_claim", 200, "", conversation_id,
                                         conversation_to_claim[conversation_id], FALSE, <<>>)
               /\ SetMem(Mem)
          ELSE IF cached # {}
          THEN \* the first claim of claims_store.items() with this conversation id
               \E cid \in cached :
                  /\ SetMem([Mem EXCEPT !.conversation_to_claim = Put(@, conversation_id, cid)])
                  /\ response' = MkResponse("conversation_claim", 200, "", conversation_id, cid, FALSE, <<>>)
          ELSE IF conversation_id \in DOMAIN conversation_files
          THEN /\ NewClaimId(Mem) <= MaxClaims
               /\ SetMem(RecoverFromFile(Mem, conversation_id))
               /\ response' = MkResponse("conversation_claim", 200, "", conversation_id,
                                         NewClaimId(Mem), FALSE, <<>>)
          ELSE /\ SetMem(Mem)
               /\ response' = MkResponse("conversation_claim", 404, "", conversation_id, 0, FALSE, <<>>)

(***************************************************************************)
(* approve_claim, reject_claim, get_logs.                                  *)
(***************************************************************************)
ApproveResultUnlogged(m, claim_id) ==
    update_claim(get_claim(m, claim_id), claim_id, [status |-> "approved"])

ApproveResult(m, claim_id) ==
    add_log(update_claim(get_claim(m, claim_id), claim_id, [status |-> "approved"]),
            claim_id, "Claim approved and initiated by human agent", "success", 0, "")

ApproveClaim(claim_id) ==
    /\ ops' = ops + 1
    /\ UNCHANGED <<streams, restarts, agent, request, inflight>>
    /\ IF get_claim_found(Mem, claim_id)
       THEN /\ SetMem(ApproveResult(Mem, claim_id))
            /\ response' = MkResponse("approve", 200, "approved", NoConv, claim_id, FALSE, <<>>)
       ELSE /\ SetMem(Mem)
            /\ response' = MkResponse("approve", 404, "", NoConv, claim_id, FALSE, <<>>)

\* ClaimStatus has no member REJECTED: evaluating ClaimStatus.REJECTED raises
\* AttributeError before update_claim and add_log are reached
RejectClaim(claim_id) ==
    /\ ops' = ops + 1
    /\ UNCHANGED <<streams, restarts, agent, request, inflight>>
    /\ IF get_claim_found(Mem, claim_id)
       THEN /\ SetMem(get_claim(Mem, claim_id))
            /\ response' = MkResponse("reject", 500, "", NoConv, claim_id, FALSE, <<>>)
       ELSE /\ SetMem(Mem)
            /\ response' = MkResponse("reject", 404, "", NoConv, claim_id, FALSE, <<>>)

GetLogs(claim_id) ==
    /\ SetMem(Mem)
    /\ response' = MkResponse("logs", 200, "", NoConv, claim_id, FALSE, LogsOf(Mem, claim_id))
    /\ ops' = ops + 1
    /\ UNCHANGED <<streams, restarts, agent, request, inflight>>

(***************************************************************************)
(* get_claim and get_coverage: the two reads of a claim and its decision.  *)
(***************************************************************************)
\* agent_outputs.get(claim_id)
AgentOutputOf(m, claim_id) ==
    IF claim_id \in DOMAIN m.agent_outputs THEN m.agent_outputs[claim_id] ELSE None

StillProcessing == "Agent is still processing this claim"

\* GET /claim/{claim_id}: the body returned for a claim that was found
ClaimBody(claim, agent_output) ==
    IF agent_output = None
    THEN [claim |-> ClaimData(claim), status |-> "processing", message |-> StillProcessing]
    ELSE [claim |-> ClaimData(claim), agent_output |-> agent_output, status |-> "completed"]

GetClaim(claim_id) ==
    \E claim \in {get_claim_return(Mem, claim_id)} :
       /\ ops' = ops + 1
       /\ UNCHANGED <<streams, restarts, agent, request, inflight>>
       /\ SetMem(get_claim(Mem, claim_id))
       /\ response' =
             IF claim = None
             THEN MkResponse("claim", 404, "Claim not found", NoConv, claim_id, FALSE, <<>>)
             ELSE LET body == ClaimBody(claim, AgentOutputOf(Mem, claim_id))
                  IN [MkResponse("claim", 200, body.status, NoConv, claim_id, FALSE, <<>>)
                        EXCEPT !.body = body]

CoverageDecisionPlaceholder(agent_output) ==
    [covered |-> FALSE, reasoning |-> StillProcessing, confidence |-> 0]

\* the "coverage_decision" of GET /claim/coverage/{claim_id}
CoverageDecision(agent_output) ==
    IF agent_output # None
    THEN [covered |-> agent_output.coverage_covered,
          reasoning |-> "coverage_reasoning",
          confidence |-> agent_output.coverage_confidence]
    ELSE [covered |-> FALSE, reasoning |-> StillProcessing, confidence |-> 0]

\* "claim_details": from the decision record if there is one, else from the claim
ClaimDetails(claim, agent_output) ==
    IF agent_output # None
    THEN [full_name |-> agent_output.full_name, confirmation |-> "confirmed"]
    ELSE [full_name |-> claim.full_name, confirmation |-> NoneStr]

\* the handler without the count of calls
CoverageAnswer(claim_id) ==
    \E claim \in {get_claim_return(Mem, claim_id)} :
       /\ UNCHANGED <<streams, restarts, agent, request, inflight>>
       /\ SetMem(get_claim(Mem, claim_id))
       /\ response' =
             IF claim = None
             THEN MkResponse("coverage", 404, "Claim not found", NoConv, claim_id, FALSE, <<>>)
             ELSE LET agent_output == AgentOutputOf(Mem, claim_id)
                  IN [MkResponse("coverage", 200, "", NoConv, claim_id, FALSE, <<>>)
                        EXCEPT !.body = [claim_id |-> claim_id,
                                         claim_details |-> ClaimDetails(claim, agent_output),
                                         coverage_decision |-> CoverageDecision(agent_output)]]

GetCoverage(claim_id) == CoverageAnswer(claim_id) /\ ops' = ops + 1

(***************************************************************************)
(* stream_logs and its event_generator.  The generator is suspended at     *)
(* every yield and at the queue wait; a step runs it to its next yield.    *)
(***************************************************************************)
Data(log) == [kind |-> "data", log |-> log]
Keepalive == [kind |-> "keepalive", log |-> Sentinel]

\* yield ": keepalive": a run of keepalives is recorded as one
WithKeepalive(out) ==
    IF out # <<>> /\ out[Len(out)] = Keepalive THEN out ELSE Append(out, Keepalive)

\* a connection slot is free again once its stream has ended
FreeSlots == {s \in StreamIds : streams[s].pc \in {"free", "closed", "cancelled"}}
LowestFree == CHOOSE s \in FreeSlots : \A r \in FreeSlots : s <= r

\* the handler: the queue is created if the claim has none
StreamLogs(claim_id) ==
    /\ FreeSlots # {}
    /\ SetMem(IF claim_id \in DOMAIN log_queues THEN Mem
              ELSE [Mem EXCEPT !.log_queues = Put(@, claim_id, <<>>)])
    /\ streams' = [streams EXCEPT ![LowestFree] =
                     [FreeStream EXCEPT !.pc = "start", !.claim_id = claim_id,
                                        !.n0 = Len(LogsOf(Mem, claim_id)),
                                        !.after_cancel =
                                             /\ streams[LowestFree].pc = "cancelled"
                                             /\ streams[LowestFree].claim_id = claim_id]]
    /\ response' = MkResponse("stream", 200, "", NoConv, claim_id, FALSE, <<>>)
    /\ UNCHANGED <<restarts, ops, agent, request, inflight>>

ReplayNextNewestFirst(st) ==
    LET logs == LogsOf(Mem, st.claim_id)
    IN IF st.pos < Len(logs)
       THEN [st EXCEPT !.pc = "replay", !.pos = @ + 1, !.out = Append(@, Data(logs[Len(logs) - st.pos]))]
       ELSE [st EXCEPT !.pc = "wait", !.out = WithKeepalive(@)]

\* for log in system_logs[claim_id]: yield ..., then the first keepalive
ReplayNext(st) ==
    LET logs == LogsOf(Mem, st.claim_id)
    IN IF st.pos < Len(logs)
       THEN [st EXCEPT !.pc = "replay", !.pos = @ + 1, !.out = Append(@, Data(logs[st.pos + 1]))]
       ELSE [st EXCEPT !.pc = "wait", !.out = WithKeepalive(@)]

GeneratorReplay(s) ==
    /\ streams[s].pc \in {"start", "replay"}
    /\ streams' = [streams EXCEPT ![s] = ReplayNext(@)]
    /\ UNCHANGED <<claims_store, claim_files, conversation_transcriptions,
                   conversation_files, conversation_to_claim, system_logs, log_queues,
                   agent_outputs, response, restarts, ops, agent, request, inflight>>

\* queue.get() returns an item: the sentinel ends the generator
GeneratorGet(s) ==
    LET claim_id == streams[s].claim_id
        queue == log_queues[claim_id]
    IN /\ streams[s].pc = "wait"
       /\ queue # <<>>
       /\ log_queues' = [log_queues EXCEPT ![claim_id] = Tail(queue)]
       /\ streams' = [streams EXCEPT ![s] =
                        IF Head(queue) = Sentinel
                        THEN [@ EXCEPT !.pc = "closed"]
                        ELSE [@ EXCEPT !.out = Append(@, Data(Head(queue)))]]
       /\ UNCHANGED <<claims_store, claim_files, conversation_transcriptions,
                      conversation_files, conversation_to_claim, system_logs,
                      agent_outputs, response, restarts, ops, agent, request, inflight>>

\* asyncio.TimeoutError after 30 s without an item
GeneratorTimeout(s) ==
    /\ streams[s].pc = "wait"
    /\ log_queues[streams[s].claim_id] = <<>>
    /\ streams' = [streams EXCEPT ![s] = [@ EXCEPT !.out = WithKeepalive(@)]]
    /\ UNCHANGED <<claims_store, claim_files, conversation_transcriptions,
                   conversation_files, conversation_to_claim, system_logs, log_queues,
                   agent_outputs, response, restarts, ops, agent, request, inflight>>

DisconnectDropQueue(s) ==
    /\ streams[s].pc \in {"start", "replay", "wait"}
    /\ streams' = [streams EXCEPT ![s] = [@ EXCEPT !.pc = "cancelled", !.pos = 0, !.out = <<>>]]
    /\ log_queues' = [c \in DOMAIN log_queues \ {streams[s].claim_id} |-> log_queues[c]]
    /\ UNCHANGED <<claims_store, claim_files, conversation_transcriptions,
                   conversation_files, conversation_to_claim, system_logs,
                   agent_outputs, response, restarts, ops, agent, request, inflight>>

\* the consumer goes away: CancelledError is swallowed, the queue is kept
Disconnect(s) ==
    /\ streams[s].pc \in {"start", "replay", "wait"}
    /\ streams' = [streams EXCEPT ![s] = [@ EXCEPT !.pc = "cancelled", !.pos = 0, !.out = <<>>]]
    /\ UNCHANGED <<claims_store, claim_files, conversation_transcriptions,
                   conversation_files, conversation_to_claim, system_logs, log_queues,
                   agent_outputs, response, restarts, ops, agent, request, inflight>>

(***************************************************************************)
(* Process restart: the in-memory registries are empty again, the files    *)
(* are kept, every connection is gone.                                     *)
(***************************************************************************)
Restart ==
    /\ restarts < MaxRestarts
    /\ restarts' = restarts + 1
    /\ claims_store' = <<>>
    /\ conversation_transcriptions' = <<>>
    /\ conversation_to_claim' = <<>>
    /\ system_logs' = <<>>
    /\ log_queues' = <<>>
    /\ agent_outputs' = <<>>
    /\ streams' = [s \in StreamIds |-> FreeStream]
    /\ response' = NoResponse
    /\ inflight' = NoInflight
    /\ UNCHANGED <<claim_files, conversation_files, ops, agent, request>>

(***************************************************************************)
(* The system.                                                             *)
(***************************************************************************)
Init ==
    /\ claims_store = <<>>
    /\ claim_files = <<>>
    /\ conversation_transcriptions = <<>>
    /\ conversation_files = <<>>
    /\ conversation_to_claim = <<>>
    /\ system_logs = <<>>
    /\ log_queues = <<>>
    /\ agent_outputs = <<>>
    /\ streams = [s \in StreamIds |-> FreeStream]
    /\ response = NoResponse
    /\ restarts = 0
    /\ ops = 0
    /\ agent = AgentIdle
    /\ request = NoRequest
    /\ inflight = NoInflight

\* conversation ids are opaque strings: a new conversation takes the lowest
\* id no delivery has used
CallConvs ==
    {c \in ConvIds : \A b \in ConvIds : b < c => b \in DOMAIN conversation_files}

\* a step within the budget of handler calls
WithinOps == ops < MaxOps

\* the handlers that read and write the stores
Next ==
    \/ \E conversation_id \in CallConvs, transcript_array \in SysTranscripts, script \in SysScripts :
          ReceiveTranscriptionWebhook(conversation_id, transcript_array, script) /\ WithinOps
    \/ \E conversation_id \in ConvIds : GetClaimFromConversation(conversation_id) /\ WithinOps
    \/ \E claim_id \in ClaimIds : ApproveClaim(claim_id) /\ WithinOps
    \/ \E claim_id \in ClaimIds : RejectClaim(claim_id) /\ WithinOps
    \/ \E claim_id \in ClaimIds : GetLogs(claim_id) /\ WithinOps

Spec == Init /\ [][Next]_vars

(***************************************************************************)
(* The log stream: the same handlers on one conversation, together with    *)
(* stream_logs, its generators and their consumers.                        *)
(***************************************************************************)
StreamTranscripts == {TranscriptOf(MinEntries - 1, MinEntries - 1), TranscriptOf(MinEntries, 0)}

StreamScripts ==
    {Script(TRUE, <<>>, Response(FALSE, <<>>, DecisionA)),
     Script(FALSE, <<>>, Response(TRUE, <<>>, NoContent))}

\* a client subscribes to a claim id it was given: ids are uuid4 values the
\* server draws in create_claim, so only ids of created claims are subscribed to
KnownClaims == DOMAIN claim_files

WithinStreamOps == ops < MaxStreamOps

WithinStreams == Cardinality(StreamIds \ FreeSlots) < MaxStreams

StreamNext ==
    \/ \E transcript_array \in StreamTranscripts, script \in StreamScripts :
          ReceiveTranscriptionWebhook(1, transcript_array, script) /\ WithinStreamOps
    \/ \E claim_id \in ClaimIds : ApproveClaim(claim_id) /\ WithinStreamOps
    \/ \E claim_id \in ClaimIds : RejectClaim(claim_id) /\ WithinStreamOps
    \/ \E claim_id \in ClaimIds : GetLogs(claim_id) /\ WithinStreamOps
    \/ \E claim_id \in KnownClaims : StreamLogs(claim_id) /\ WithinStreams
    \/ \E s \in StreamIds : GeneratorReplay(s)
    \/ \E s \in StreamIds : GeneratorGet(s)
    \/ \E s \in StreamIds : GeneratorTimeout(s)
    \/ \E s \in StreamIds : Disconnect(s)

StreamSpec == Init /\ [][StreamNext]_vars

(***************************************************************************)
(* One orchestrator run against every scripted backend.                    *)
(***************************************************************************)
AgentInit ==
    /\ claims_store = <<>>
    /\ claim_files = <<>>
    /\ conversation_transcriptions = <<>>
    /\ conversation_files = <<>>
    /\ conversation_to_claim = <<>>
    /\ system_logs = <<>>
    /\ log_queues = <<>>
    /\ agent_outputs = <<>>
    /\ streams = [s \in StreamIds |-> FreeStream]
    /\ response = NoResponse
    /\ restarts = 0
    /\ ops = 0
    /\ request = NoRequest
    /\ inflight = NoInflight
    /\ \E script \in Scripts : agent = AgentBegin(script, NoText)

AgentIterate ==
    /\ agent.pc = "loop"
    /\ agent' = AgentStep(agent, ResponseAt(agent.script, agent.requests + 1))
    /\ UNCHANGED sysvars

AgentNext == AgentIterate

AgentSpec == AgentInit /\ [][AgentNext]_vars

\* The run is one coroutine awaited by the webhook handler and every backend
\* call returns or raises: a run that can take a round takes it.
AgentFairSpec == AgentInit /\ [][AgentNext]_vars /\ WF_vars(AgentNext)

(***************************************************************************)
(* Deliveries as requests: every combination of a configured or missing    *)
(* secret, a signature header and a body.                                  *)
(***************************************************************************)
SignedHeader(secret, timestamp, raw) ==
    <<HeaderPart("t", timestamp), HeaderPart("v0", HmacSha256(secret, timestamp, raw))>>

Stale == Digits(Now - ToleranceSeconds - 1)
Oldest == Digits(Now - ToleranceSeconds)
Ahead == Digits(Now + ToleranceSeconds + 1)

\* headers sent where the secret is configured
Headers(raw) ==
    {<<>>,
     <<HeaderPart("t", Stale)>>,
     <<HeaderPart("t", Stale), HeaderPart("v0", EmptyText)>>,
     <<HeaderPart("v0", HmacSha256(OtherSecret, Digits(Now), raw))>>,
     <<HeaderPart("t", EmptyText), HeaderPart("v0", HmacSha256(OtherSecret, Digits(Now), raw))>>,
     SignedHeader(WebhookSecret, Digits(Now), raw),
     <<HeaderPart("v0", HmacSha256(WebhookSecret, Digits(Now), raw)), HeaderPart("x", NoneText),
       HeaderPart("t", Digits(Now))>>,
     SignedHeader(WebhookSecret, Oldest, raw),
     SignedHeader(WebhookSecret, Stale, raw),
     SignedHeader(WebhookSecret, Ahead, raw),
     SignedHeader(WebhookSecret, Letters, raw),
     SignedHeader(OtherSecret, Digits(Now), raw),
     <<HeaderPart("t", Digits(Now)), HeaderPart("v0", HmacSha256(WebhookSecret, Oldest, raw))>>,
     SignedHeader(WebhookSecret, Digits(Now), JsonArray)}

\* headers sent where no secret is configured
UncheckedHeaders(raw) ==
    {<<>>, SignedHeader(WebhookSecret, Stale, raw), SignedHeader(OtherSecret, Digits(Now), raw)}

DeliveryBodies ==
    {JsonObject("post_call_transcription", conversation_id, NoConv, transcript_array) :
        conversation_id \in CallConvs, transcript_array \in StreamTranscripts}

OtherBodies ==
    {NotJsonBody, JsonArray,
     JsonObject("post_call_audio", 1, NoConv, TranscriptOf(MinEntries, 0)),
     JsonObject("post_call_transcription", NoConv, NoConv, TranscriptOf(MinEntries, 0)),
     JsonObject("post_call_transcription", NoConv, 1, TranscriptOf(MinEntries, 0))}

Requests ==
    UNION {{Request(WebhookSecret, header, raw) : header \in Headers(raw)}
           \cup {Request(NoSecret, header, raw) : header \in UncheckedHeaders(raw)} :
           raw \in DeliveryBodies \cup OtherBodies}

WithinDeliveries == ops < MaxDeliveries

WebhookNext ==
    \E req \in Requests, script \in StreamScripts :
       ReceiveWebhookRequest(req, script) /\ WithinDeliveries

WebhookSpec == Init /\ [][WebhookNext]_vars

(***************************************************************************)
(* The transcript builder on every transcript array: one conversation is   *)
(* delivered and then delivered again, as a sender that retries does.      *)
(* A string is the sequence of its pieces.                                 *)
(***************************************************************************)
\* f"{speaker_label}: {message}"
FormatPart(part) == <<part.label, ": ", part.text>>

\* "\n".join(transcription_parts)
RECURSIVE JoinNewline(_)
JoinNewline(parts) ==
    IF parts = <<>> THEN <<>>
    ELSE IF Len(parts) = 1 THEN FormatPart(parts[1])
    ELSE FormatPart(parts[1]) \o <<"\n">> \o JoinNewline(Tail(parts))

DumpEntry(entry) ==
    <<"{role: ", entry.role, ", message: ", entry.message, ", original_message: ",
      IF entry.original_message = NoneStr THEN "null" ELSE entry.original_message, "}">>

RECURSIVE DumpEntries(_)
DumpEntries(transcript_array) ==
    IF transcript_array = <<>> THEN <<>>
    ELSE IF Len(transcript_array) = 1 THEN DumpEntry(transcript_array[1])
    ELSE DumpEntry(transcript_array[1]) \o <<", ">> \o DumpEntries(Tail(transcript_array))

\* json.dumps(transcript_array)
JsonDumps(transcript_array) == <<"[">> \o DumpEntries(transcript_array) \o <<"]">>

\* transcription_text as the string the handler stores
TranscriptionText(built) ==
    IF built.kind = "lines" THEN JoinNewline(built.lines)
    ELSE IF built.kind = "json" THEN JsonDumps(built.raw)
    ELSE <<>>

EntryShapes ==
    {Entry(role, message, original_message) :
        role \in {"agent", "user", "unknown"},
        message \in {"", "My car broke..."},
        original_message \in {NoneStr, "", "My car broke down in Lisbon"}}

TranscriptArrays == UNION {[1..n -> EntryShapes] : n \in 0..MaxUtter}

BuilderScript == Script(TRUE, <<>>, Response(FALSE, <<>>, DecisionA))

FirstDelivery ==
    /\ ops = 0
    /\ \E transcript_array \in TranscriptArrays :
          ReceiveTranscriptionWebhook(1, transcript_array, BuilderScript)

Redelivery ==
    /\ ops > 0
    /\ ops < MaxDeliveries
    /\ ReceiveWebhookRequest(request, BuilderScript)

BuilderNext == FirstDelivery \/ Redelivery

BuilderSpec == Init /\ [][BuilderNext]_vars

(***************************************************************************)
(* The claim store called directly: create_claim and update_claim with     *)
(* keyword arguments of every kind.                                        *)
(***************************************************************************)
\* names every pydantic model answers hasattr for without having them as
\* fields; setattr on one of them raises ValueError
ModelAttributes == {"dict", "json", "copy"}

UpdateKwargs ==
    {<<>>,
     [status |-> "approved"],
     [status |-> "processing", conversation_id |-> 1],
     [full_name |-> "Ana Silva", bogus |-> "x"],
     [bogus |-> "x"],
     [status |-> "denied", copy |-> "x"]}
    \cup {[id |-> claim_id] : claim_id \in ClaimIds}

StoreResponse(op, returned, claim_id) == MkResponse(op, 0, returned, NoConv, claim_id, FALSE, <<>>)

CreateClaimCall ==
    /\ NewClaimId(Mem) <= MaxClaims
    /\ ops' = ops + 1
    /\ SetMem(create_claim(Mem))
    /\ response' = StoreResponse("create_claim", "claim_id", NewClaimId(Mem))
    /\ UNCHANGED <<streams, restarts, agent, request, inflight>>

\* update_claim(claim_id, **kwargs), lines 116-129
UpdateClaimCall(claim_id, kwargs) ==
    /\ ops' = ops + 1
    /\ UNCHANGED <<streams, restarts, agent, request, inflight>>
    /\ IF claim_id \notin DOMAIN claims_store
       THEN /\ response' = StoreResponse("update_claim", "None", claim_id)
            /\ SetMem(Mem)
       ELSE IF DOMAIN kwargs \cap ModelAttributes = {}
       THEN /\ response' = StoreResponse("update_claim", "claim", claim_id)
            /\ SetMem(update_claim(Mem, claim_id, kwargs))
       ELSE \* setattr raises at the first such key: the fields set before it, in
            \* the order of the call, stay set on the cached object
            \E applied \in SUBSET (DOMAIN kwargs \cap DOMAIN claims_store[claim_id]) :
               /\ response' = StoreResponse("update_claim", "ValueError", claim_id)
               /\ SetMem([Mem EXCEPT !.claims_store[claim_id] =
                              MergeFields(@, [key \in applied |-> kwargs[key]])])

WithinStoreCalls == ops < MaxStoreCalls

StoreNext ==
    \/ CreateClaimCall /\ WithinStoreCalls
    \/ \E claim_id \in ClaimIds, kwargs \in UpdateKwargs :
          UpdateClaimCall(claim_id, kwargs) /\ WithinStoreCalls

StoreSpec == Init /\ [][StoreNext]_vars

(***************************************************************************)
(* The handlers across a process restart: deliveries, the lookup by        *)
(* conversation, the reads and the approval, before and after the          *)
(* registries are emptied.                                                 *)
(***************************************************************************)
RestartNext ==
    \/ \E conversation_id \in CallConvs, transcript_array \in StreamTranscripts, script \in StreamScripts :
          ReceiveTranscriptionWebhook(conversation_id, transcript_array, script) /\ WithinOps
    \/ \E conversation_id \in ConvIds : GetClaimFromConversation(conversation_id) /\ WithinOps
    \/ \E claim_id \in ClaimIds : GetClaim(claim_id) /\ WithinOps
    \/ \E claim_id \in ClaimIds : GetCoverage(claim_id) /\ WithinOps
    \/ \E claim_id \in ClaimIds : ApproveClaim(claim_id) /\ WithinOps
    \/ \E claim_id \in ClaimIds : RejectClaim(claim_id) /\ WithinOps
    \/ Restart

RestartSpec == Init /\ [][RestartNext]_vars

(***************************************************************************)
(* Concurrent deliveries: handlers suspended at the await of the body,     *)
(* resumed by the event loop in any order, and the lookup by conversation  *)
(* in between.                                                             *)
(***************************************************************************)
ConcurrentNext ==
    \/ \E slot \in Slots, conversation_id \in CallConvs,
          transcript_array \in StreamTranscripts, script \in StreamScripts :
          Arrive(slot, PlainRequest(conversation_id, transcript_array), script)
    \/ \E slot \in Slots : Resume(slot)
    \/ \E conversation_id \in ConvIds : GetClaimFromConversation(conversation_id) /\ WithinOps

ConcurrentSpec == Init /\ [][ConcurrentNext]_vars

\* a client that waits for a decision keeps asking for it, without end, and
\* is answered every time; the program itself schedules nothing (main.py
\* starts no task and no thread)
Poll == \E claim_id \in ClaimIds : CoverageAnswer(claim_id) /\ UNCHANGED ops

RestartFairNext == RestartNext \/ Poll

RestartFairSpec == Init /\ [][RestartFairNext]_vars /\ WF_vars(Poll)

(***************************************************************************)
(* Helpers of the properties.                                              *)
(***************************************************************************)
Min(a, b) == IF a <= b THEN a ELSE b

HasMessage(logs, message) == \E i \in 1..Len(logs) : logs[i].message = message

\* the entries a step appended to a claim's history
LogsNow(claim_id) == IF claim_id \in DOMAIN system_logs THEN system_logs[claim_id] ELSE <<>>
LogsNext(claim_id) == IF claim_id \in DOMAIN system_logs' THEN system_logs'[claim_id] ELSE <<>>
Appended(claim_id) == SubSeq(LogsNext(claim_id), Len(LogsNow(claim_id)) + 1, Len(LogsNext(claim_id)))

NonSentinels(queue) == SelectSeq(queue, LAMBDA item : item # Sentinel)
SentinelCount(queue) == Len(SelectSeq(queue, LAMBDA item : item = Sentinel))

\* a step of the webhook handler for this delivery; the first three conjuncts
\* follow from the fourth and are there to be evaluated first
WebhookStep(c, tr, script) ==
    /\ response'.op = "webhook"
    /\ response'.conversation_id = c
    /\ conversation_files'[c].raw_transcript = tr
    /\ ReceiveTranscriptionWebhook(c, tr, script)

StatusRank(status) ==
    CASE status = "pending" -> 0
      [] status = "processing" -> 1
      [] OTHER -> 2

(***************************************************************************)
(* C1: once conversation_to_claim maps a conversation id, the entry never  *)
(* changes, and a webhook delivery for a mapped conversation id creates no *)
(* claim record (neither cached nor persisted).                            *)
(***************************************************************************)
C1_MappingStable ==
    [][/\ \A c \in DOMAIN conversation_to_claim :
             /\ c \in DOMAIN conversation_to_claim'
             /\ conversation_to_claim'[c] = conversation_to_claim[c]
       /\ \A c \in DOMAIN conversation_to_claim :
             (\E tr \in SysTranscripts, script \in SysScripts : WebhookStep(c, tr, script))
             => /\ DOMAIN claims_store' = DOMAIN claims_store
                /\ DOMAIN claim_files' = DOMAIN claim_files]_vars

\* a mapped conversation was delivered again
C1_Witness ==
    \E c \in DOMAIN conversation_to_claim :
       /\ response.op = "webhook" /\ response.conversation_id = c
       /\ HasMessage(LogsOf(Mem, conversation_to_claim[c]), "Claim updated with new transcription")

(***************************************************************************)
(* C2: after an accepted delivery for conversation c, first or repeated,   *)
(* the claim mapped to c holds the text built from that delivery, carries  *)
(* conversation id c and has status processing.                            *)
(***************************************************************************)
C2_ReconciledClaim ==
    [][\A c \in ConvIds, tr \in SysTranscripts, script \in SysScripts :
          WebhookStep(c, tr, script)
          => /\ c \in DOMAIN conversation_to_claim'
             /\ conversation_to_claim'[c] \in DOMAIN claims_store'
             /\ claims_store'[conversation_to_claim'[c]].transcription = BuildTranscription(tr)
             /\ claims_store'[conversation_to_claim'[c]].conversation_id = c
             /\ claims_store'[conversation_to_claim'[c]].status = "processing"
             \* the state the reconciliation step itself leaves
             /\ LET m == Reconcile(StoreConversation(Mem, c, tr), c, tr)
                    claim == m.claims_store[m.conversation_to_claim[c]]
                IN /\ claim.transcription = BuildTranscription(tr)
                   /\ claim.conversation_id = c
                   /\ claim.status = "processing"]_vars

\* a re-delivery replaced the transcript of an approved claim
C2_Witness ==
    \E c \in DOMAIN conversation_to_claim :
       LET logs == LogsOf(Mem, conversation_to_claim[c])
           claim == claims_store[conversation_to_claim[c]]
       IN /\ response.op = "webhook" /\ response.conversation_id = c
          /\ HasMessage(logs, "Claim approved and initiated by human agent")
          /\ logs[Len(logs) - 1].message = "Claim updated with new transcription"
          /\ claim.status = "processing"
          /\ claim.transcription = BuildTranscription(TranscriptOf(MinEntries - 1, MinEntries - 1))

(***************************************************************************)
(* C3: a delivery with fewer than 3 transcript records, empty records      *)
(* counted, does not start the agent: processed is false, no decision is   *)
(* stored and the claim is left processing; a delivery with 3 or more      *)
(* records starts the agent and answers processed true.                    *)
(***************************************************************************)
C3_CompletenessGate ==
    [][\A c \in ConvIds, tr \in SysTranscripts, script \in SysScripts :
          WebhookStep(c, tr, script)
          => LET claim_id == conversation_to_claim'[c]
                 started == HasMessage(Appended(claim_id), "Starting unified agent processing...")
             IN IF Len(tr) < MinEntries
                THEN /\ response'.processed = FALSE
                     /\ ~started
                     /\ agent_outputs' = agent_outputs
                     /\ claims_store'[claim_id].status = "processing"
                ELSE /\ response'.processed = TRUE
                     /\ started
                     /\ HasMessage(Appended(claim_id), "Starting unified agent processing")]_vars

\* a short delivery with an empty record was answered processed = false
C3_Witness ==
    \E c \in DOMAIN conversation_to_claim :
       /\ response.op = "webhook" /\ response.conversation_id = c /\ ~response.processed
       /\ Len(conversation_files[c].raw_transcript) = MinEntries - 1
       /\ \E i \in 1..Len(conversation_files[c].raw_transcript) :
             ChosenMessage(conversation_files[c].raw_transcript[i]) = ""
       /\ claims_store[conversation_to_claim[c]].status = "processing"
       /\ conversation_to_claim[c] \notin DOMAIN agent_outputs

(***************************************************************************)
(* C4, as claimed: a claim's status only moves forward along               *)
(* pending -> processing -> {approved, denied}.                            *)
(***************************************************************************)
C4_StatusOnlyForward ==
    [][\A claim_id \in DOMAIN claims_store :
          /\ claim_id \in DOMAIN claims_store'
          /\ StatusRank(claims_store'[claim_id].status) >= StatusRank(claims_store[claim_id].status)]_vars

(***************************************************************************)
(* C5, as claimed: whenever a run finishes for a claim that has a          *)
(* subscriber queue, returned or raised, the close sentinel is enqueued    *)
(* exactly once on that queue.                                             *)
(***************************************************************************)
C5_SentinelOnEveryFinish ==
    [][\A tr \in StreamTranscripts, script \in StreamScripts :
          (/\ WebhookStep(1, tr, script)
           /\ ShouldProcessAgent(tr)
           /\ conversation_to_claim'[1] \in DOMAIN log_queues)
          => SentinelCount(log_queues'[conversation_to_claim'[1]])
                = SentinelCount(log_queues[conversation_to_claim'[1]]) + 1]_vars

(***************************************************************************)
(* C6: a subscription opened when the history holds n entries yields those *)
(* n entries first, in append order, before any keepalive and before any   *)
(* later entry.                                                            *)
(***************************************************************************)
C6_ReplayFirst ==
    \A s \in StreamIds :
       streams[s].pc \in {"replay", "wait", "closed"}
       => /\ \A i \in 1..Min(streams[s].n0, Len(streams[s].out)) :
                streams[s].out[i] = Data(LogsOf(Mem, streams[s].claim_id)[i])
          /\ streams[s].pc \in {"wait", "closed"} => Len(streams[s].out) > streams[s].n0

\* five entries existed at the subscription; they and a later entry were delivered
C6_Witness ==
    \E s \in StreamIds :
       /\ streams[s].pc = "wait"
       /\ streams[s].n0 = 5
       /\ Len(LogsOf(Mem, streams[s].claim_id)) > 5
       /\ Len(streams[s].out) > 6
       /\ streams[s].out[6] = Keepalive

(***************************************************************************)
(* C7: every append adds its entry at the end of the claim's history and   *)
(* enqueues the same entry iff the claim has a subscriber queue, behind    *)
(* whatever the subscriber has left unconsumed; one append adds exactly    *)
(* one entry.                                                              *)
(***************************************************************************)
C7_Append ==
    [][/\ \A claim_id \in ClaimIds :
             /\ IsPrefix(LogsNow(claim_id), LogsNext(claim_id))
             /\ Appended(claim_id) # <<>>
                => IF claim_id \in DOMAIN log_queues
                   THEN /\ claim_id \in DOMAIN log_queues'
                        /\ NonSentinels(log_queues'[claim_id])
                              = NonSentinels(log_queues[claim_id]) \o Appended(claim_id)
                   ELSE claim_id \notin DOMAIN log_queues'
       /\ \A claim_id \in ClaimIds :
             (ApproveClaim(claim_id) /\ get_claim_found(Mem, claim_id))
             => /\ Len(Appended(claim_id)) = 1
                /\ Appended(claim_id)[1].type = "success"
                /\ Appended(claim_id)[1].message = "Claim approved and initiated by human agent"]_vars

\* an entry was appended behind entries the subscriber has not consumed
C7_Witness ==
    \E claim_id \in DOMAIN log_queues :
       /\ response.op = "approve" /\ response.code = 200 /\ response.claim_id = claim_id
       /\ Len(log_queues[claim_id]) >= 3
       /\ log_queues[claim_id][Len(log_queues[claim_id])] = system_logs[claim_id][Len(system_logs[claim_id])]

(***************************************************************************)
(* C8: a claim's history is append-only: every step of every operation     *)
(* leaves the earlier history as a prefix of the later one.                *)
(***************************************************************************)
C8_AppendOnly ==
    [][\A claim_id \in DOMAIN system_logs :
          /\ claim_id \in DOMAIN system_logs'
          /\ Len(system_logs'[claim_id]) >= Len(system_logs[claim_id])
          /\ \A i \in 1..Len(system_logs[claim_id]) :
                system_logs'[claim_id][i] = system_logs[claim_id][i]]_vars

\* a history that grew over several operations and was read
C8_Witness ==
    /\ response.op = "logs"
    /\ Len(response.logs) > 5
    /\ HasMessage(response.logs, "Claim updated with new transcription")
    /\ \E s \in StreamIds : streams[s].pc = "cancelled"

(***************************************************************************)
(* C9: a disconnect changes only the disconnected stream: histories and    *)
(* subscriber queues are what they were; a subscription opened after it    *)
(* replays the history from its first entry.                               *)
(***************************************************************************)
C9_Disconnect ==
    /\ [][\A s \in StreamIds :
             Disconnect(s)
             => /\ UNCHANGED <<claims_store, claim_files, conversation_transcriptions,
                               conversation_files, conversation_to_claim, system_logs,
                               log_queues, agent_outputs, response>>
                /\ \A r \in StreamIds \ {s} : streams'[r] = streams[r]]_vars
    /\ [](\A s \in StreamIds :
             (streams[s].after_cancel /\ streams[s].pc \in {"wait", "closed"})
             => /\ Len(streams[s].out) > streams[s].n0
                /\ \A i \in 1..streams[s].n0 :
                      streams[s].out[i] = Data(LogsOf(Mem, streams[s].claim_id)[i]))

\* after a disconnect, a new subscription has replayed a non-empty history
C9_Witness ==
    \E s \in StreamIds :
       /\ streams[s].after_cancel
       /\ streams[s].pc = "wait"
       /\ streams[s].n0 >= 2
       /\ streams[s].claim_id \in DOMAIN log_queues

(***************************************************************************)
(* C10, as claimed: one run issues at most 10 completion requests.         *)
(***************************************************************************)
C10_AtMostTenRequests == agent.requests <= max_iterations

(***************************************************************************)
(* C10, amended: one run issues at most 11 completion requests: at most 10 *)
(* counted rounds and at most one discarded round that is not counted.     *)
(***************************************************************************)
C10_AtMostElevenRequests ==
    /\ agent.requests <= max_iterations + 1
    /\ agent.iteration <= max_iterations
    /\ agent.discards <= 1
    /\ agent.requests = agent.iteration + agent.discards

\* a run that made 11 requests
C10_Witness == agent.requests = max_iterations + 1 /\ agent.pc = "raised"

(***************************************************************************)
(* C11: every run ends, for every backend: it returns one decision record  *)
(* or raises, stays ended, and a run whose loop condition fails at the     *)
(* ceiling raises.                                                         *)
(***************************************************************************)
AgentEnded == agent.pc \in {"returned", "raised"}

C11_RunTerminates ==
    /\ <>AgentEnded
    /\ [](agent.pc = "returned" => agent.output.kind = "decision" /\ agent.error = "")
    /\ [](agent.pc = "raised" => agent.output = NoContent /\ agent.error # "")
    /\ [][/\ AgentEnded => agent' = agent
          /\ (agent.pc = "loop" /\ agent.iteration = max_iterations)
             => /\ agent'.pc = "raised"
                /\ agent'.requests = agent.requests
                /\ agent'.error = "Agent processing exceeded maximum iterations"]_vars

\* a run that used all its rounds on tool calls and raised
C11_Witness ==
    /\ agent.pc = "raised"
    /\ agent.iteration = max_iterations
    /\ agent.requests = max_iterations
    /\ agent.error = "Agent processing exceeded maximum iterations"
    /\ agent.messages[Len(agent.messages)].role = "tool"

(***************************************************************************)
(* C12, as claimed: a response with neither tool calls nor content ends    *)
(* the run at once with a failure whose error and log messages are not     *)
(* those of the iteration-ceiling failure.                                 *)
(***************************************************************************)
EmptyResponse == Response(FALSE, <<>>, NoContent)

CeilingError == AgentAfterLoop(AgentIdle).error

CeilingLog == AgentAfterLoop(AgentIdle).logs[1].message

C12_EmptyResponseDistinctFailure ==
    [][(/\ agent.pc = "loop"
        /\ LoopContinues(agent)
        /\ ResponseAt(agent.script, agent.requests + 1) = EmptyResponse
        /\ AgentIterate)
       => /\ agent'.pc = "raised"
          /\ agent'.requests = agent.requests + 1
          /\ agent'.error # CeilingError
          /\ ~HasMessage(agent'.logs, CeilingLog)]_vars

(***************************************************************************)
(* C13: when the run raises, for whatever reason, the webhook handler      *)
(* still answers 200 "received" with processed = true, its last log entry  *)
(* for the claim is the error entry, no decision record is stored or       *)
(* replaced, and the claim is left processing.                             *)
(***************************************************************************)
\* one backend for each way a run raises
FailureScripts ==
    {Script(FALSE, <<>>, Response(TRUE, <<>>, NoContent)),        \* no API key
     Script(TRUE, <<>>, Response(TRUE, <<>>, NoContent)),         \* the backend call raises
     Script(TRUE, <<>>, EmptyResponse),                           \* no content
     Script(TRUE, <<>>, Response(FALSE, <<>>, NotJson)),          \* unparsable output
     Script(TRUE, <<>>, Response(FALSE, <<>>, BadSchema)),        \* output fails validation
     Script(TRUE, <<>>, Response(FALSE, <<CallBadArgs>>, NoContent)),
     Script(TRUE, <<>>, Response(FALSE, <<CallPolicy>>, NoContent))}   \* the ceiling

FailedRunOutcome(m, claim_id) ==
    /\ m.agent_outputs = agent_outputs
    /\ m.claims_store[claim_id].status = "processing"
    /\ m.claim_files[claim_id].status = "processing"
    /\ LET logs == m.system_logs[claim_id]
       IN /\ logs[Len(logs)].type = "error"
          /\ logs[Len(logs)].message = "Agent processing failed"
          /\ Len(logs) > Len(LogsNow(claim_id))

C13_RunFailureContained ==
    /\ [][\A c \in ConvIds, tr \in SysTranscripts, script \in SysScripts :
             (/\ WebhookStep(c, tr, script)
              /\ ShouldProcessAgent(tr)
              /\ RunAgent(script, BuildTranscription(tr)).pc = "raised")
             => /\ response'.code = 200
                /\ response'.status = "received"
                /\ response'.processed
                /\ agent_outputs' = agent_outputs
                /\ claims_store'[response'.claim_id].status = "processing"
                /\ Appended(response'.claim_id)[Len(Appended(response'.claim_id))].type = "error"]_vars
    /\ [](\A c \in CallConvs, script \in FailureScripts :
             (c \in DOMAIN conversation_to_claim \/ NewClaimId(Mem) <= MaxClaims)
             => \E m \in {WebhookResult(Mem, c, TranscriptOf(MinEntries, 0), script)} :
                   /\ RunAgent(script, NoText).pc = "raised"
                   /\ FailedRunOutcome(m, m.conversation_to_claim[c]))

\* a claim that has a decision from an earlier run, after a run that raised
C13_Witness ==
    \E c \in DOMAIN conversation_to_claim :
       LET claim_id == conversation_to_claim[c]
           logs == LogsOf(Mem, claim_id)
       IN /\ response.op = "webhook" /\ response.claim_id = claim_id /\ response.processed
          /\ claim_id \in DOMAIN agent_outputs
          /\ logs[Len(logs)].message = "Agent processing failed"
          /\ claims_store[claim_id].status = "processing"

(***************************************************************************)
(* Properties of the request head.                                         *)
(***************************************************************************)
\* the last handler that ran was the webhook, and request is what it received
WebhookAnswered == response.op = "webhook" /\ request # NoRequest

BodyParsed(req) == Verification(req) \in {"verified", "unchecked"}

BadJson(req) == BodyParsed(req) /\ req.raw.text = "garbage"

MissingConversationId(req) ==
    /\ BodyParsed(req)
    /\ req.raw.text = "object"
    /\ req.raw.type = "post_call_transcription"
    /\ ExtractConversationId(req.raw) = NoConv

(***************************************************************************)
(* C14: the webhook handler answers a bad signature or a stale timestamp   *)
(* with status 401, a missing conversation id or an unparsable JSON body   *)
(* with status 400, and answers 500 only in the other failure cases.       *)
(***************************************************************************)
C14_FailureStatuses ==
    WebhookAnswered
    => /\ Verification(request) \in {"stale", "mismatch"} => response.code = 401
       /\ (BadJson(request) \/ MissingConversationId(request)) => response.code = 400
       /\ response.code = 500
          => /\ Verification(request) \notin {"stale", "mismatch"}
             /\ ~BadJson(request)
             /\ ~MissingConversationId(request)

\* the t and v0 the header carries
Carried(req) == ParseSignatureHeader(req.header, [signature |-> NoneText, timestamp |-> NoneText])

\* a secret is configured and the header carries both t and v0
SignedRequest(req) ==
    /\ req.secret # NoSecret
    /\ Truthy(Carried(req).signature)
    /\ Truthy(Carried(req).timestamp)

\* the handler answered with the failure of the signature block
RejectedByVerification ==
    /\ response.code >= 400
    /\ response.status \in {"Webhook timestamp too old", "Invalid webhook signature", "ValueError"}

SignatureMatches(req) ==
    Carried(req).signature = HmacSha256(req.secret, Carried(req).timestamp, req.raw)

(***************************************************************************)
(* C15, as stated: with a secret configured and a header carrying both t   *)
(* and v0, verification succeeds if and only if v0 is the HMAC-SHA256 of   *)
(* "t.body" under the secret and t is at most 30 minutes away from the     *)
(* time of verification, before or after it.                               *)
(***************************************************************************)
C15_WithinWindowBothSides ==
    (WebhookAnswered /\ SignedRequest(request))
    => (~RejectedByVerification
        <=> /\ SignatureMatches(request)
            /\ Carried(request).timestamp.kind = "digits"
            /\ Carried(request).timestamp.n >= Now - ToleranceSeconds
            /\ Carried(request).timestamp.n <= Now + ToleranceSeconds)

(***************************************************************************)
(* C15, amended: with a secret configured and a header carrying both t and *)
(* v0, verification succeeds if and only if v0 is the HMAC-SHA256 of       *)
(* "t.body" under the secret and t is an integer not more than 30 minutes  *)
(* older than the time of verification; a later t, however far ahead, is   *)
(* accepted.  A request that fails verification gets an error status and   *)
(* a request that passes it is handled on from its body.                   *)
(***************************************************************************)
C15_NotOlderThanWindow ==
    (WebhookAnswered /\ SignedRequest(request))
    => /\ ~RejectedByVerification
          <=> /\ SignatureMatches(request)
              /\ Carried(request).timestamp.kind = "digits"
              /\ Carried(request).timestamp.n >= Now - ToleranceSeconds
       /\ RejectedByVerification => response.code >= 400 /\ response.claim_id = 0
       /\ (/\ ~RejectedByVerification
           /\ request.raw.text = "object"
           /\ request.raw.type = "post_call_transcription"
           /\ ExtractConversationId(request.raw) # NoConv)
          => response.code = 200 /\ response.conversation_id = ExtractConversationId(request.raw)

\* a correctly signed delivery stamped more than 30 minutes ahead was processed
C15_Witness ==
    /\ WebhookAnswered
    /\ SignedRequest(request)
    /\ SignatureMatches(request)
    /\ Carried(request).timestamp.n > Now + ToleranceSeconds
    /\ response.code = 200
    /\ response.conversation_id \in DOMAIN conversation_to_claim
    /\ response.claim_id = conversation_to_claim[response.conversation_id]

\* the same body, signed now under the configured secret
VerifiedTwin(req) ==
    Request(WebhookSecret, SignedHeader(WebhookSecret, Digits(Now), req.raw), req.raw)

Unchecked(req) == req.secret = NoSecret \/ req.header = <<>>

(***************************************************************************)
(* C16: when no secret is configured, or the request carries no signature  *)
(* header, no signature or timestamp check is made: the request never gets *)
(* the answer of a failed verification, whatever its header holds, and the *)
(* handler does with its body and answers exactly what it does and answers *)
(* for the same body correctly signed.                                     *)
(***************************************************************************)
C16_UncheckedLikeVerified ==
    /\ []((WebhookAnswered /\ Unchecked(request)) => ~RejectedByVerification)
    /\ [][\A script \in StreamScripts :
             (Unchecked(request') /\ ReceiveWebhookRequest(request', script))
             => /\ Verification(VerifiedTwin(request')) = "verified"
                /\ Answer(VerifiedTwin(request'), script)]_vars

\* no secret is configured, the header is stale or signed under another key,
\* and the delivery was processed by the agent
C16_Witness ==
    /\ WebhookAnswered
    /\ request.secret = NoSecret
    /\ request.header # <<>>
    /\ \/ Carried(request).timestamp.n < Now - ToleranceSeconds
       \/ Carried(request).signature # HmacSha256(WebhookSecret, Carried(request).timestamp, request.raw)
    /\ response.code = 200
    /\ response.processed
    /\ response.claim_id \in DOMAIN claims_store

\* the request fails verification: its timestamp is too old or its signature
\* is not the HMAC of its timestamp and body
FailsVerification(req) ==
    /\ SignedRequest(req)
    /\ Carried(req).timestamp.kind = "digits"
    /\ \/ Carried(req).timestamp.n < Now - ToleranceSeconds
       \/ ~SignatureMatches(req)

(***************************************************************************)
(* C17: a webhook rejected by verification (stale timestamp or mismatching *)
(* signature) leaves the conversation store, the claim store, the          *)
(* conversation-to-claim mapping, the decision store and every log         *)
(* history and log queue unchanged, in memory and on disk.                 *)
(***************************************************************************)
C17_RejectionChangesNothing ==
    [][\A script \in StreamScripts :
          (FailsVerification(request') /\ ReceiveWebhookRequest(request', script))
          => /\ response'.code >= 400
             /\ UNCHANGED <<claims_store, claim_files, conversation_transcriptions,
                            conversation_files, conversation_to_claim, system_logs,
                            log_queues, agent_outputs>>]_vars

\* a delivery for a conversation that already has a claim was rejected
C17_Witness ==
    /\ WebhookAnswered
    /\ FailsVerification(request)
    /\ RejectedByVerification
    /\ request.raw.text = "object"
    /\ ExtractConversationId(request.raw) \in DOMAIN conversation_to_claim
    /\ request.raw.transcript # conversation_files[ExtractConversationId(request.raw)].raw_transcript

(***************************************************************************)
(* The reference text of a transcript array.                               *)
(***************************************************************************)
ReferenceChosen(entry) ==
    IF entry.original_message = NoneStr THEN entry.message ELSE entry.original_message

ReferenceLines(transcript_array) ==
    LET kept == SelectSeq(transcript_array, LAMBDA entry : ReferenceChosen(entry) # "")
    IN [i \in 1..Len(kept) |->
          <<IF kept[i].role = "agent" THEN "Agent" ELSE "User", ": ", ReferenceChosen(kept[i])>>]

RECURSIVE Flatten(_, _)
Flatten(seqs, separator) ==
    IF seqs = <<>> THEN <<>>
    ELSE IF Len(seqs) = 1 THEN seqs[1]
    ELSE seqs[1] \o separator \o Flatten(Tail(seqs), separator)

ReferenceText(transcript_array) ==
    IF ReferenceLines(transcript_array) = <<>> THEN JsonDumps(transcript_array)
    ELSE Flatten(ReferenceLines(transcript_array), <<"\n">>)

\* the text stored for the conversation of the last delivery
StoredText == TranscriptionText(conversation_transcriptions[response.conversation_id].transcription)

Delivered == WebhookAnswered /\ response.code = 200 /\ response.conversation_id # NoConv

(***************************************************************************)
(* C18: for every transcript array the built text is the reference text:   *)
(* the lines "Agent: <text>" for role agent and "User: <text>" for any     *)
(* other role, joined by newlines in input order, where <text> is the      *)
(* untruncated form when present and else the display form, records whose  *)
(* chosen text is empty being omitted; the raw JSON of the array if no     *)
(* record yields text.  The text is never empty, the conversation file and *)
(* the claim hold the same text, and building it again from the same array *)
(* gives the same text.                                                    *)
(***************************************************************************)
C18_BuiltTextIsReference ==
    /\ [](Delivered
          => /\ StoredText = ReferenceText(request.raw.transcript)
             /\ StoredText # <<>>
             /\ TranscriptionText(conversation_files[response.conversation_id].transcription) = StoredText
             /\ TranscriptionText(claims_store[response.claim_id].transcription) = StoredText)
    /\ [][(Delivered /\ Redelivery)
          => conversation_transcriptions' = conversation_transcriptions]_vars

\* an array whose first record has an empty untruncated form over a non-empty
\* display form and is dropped, and whose second record is kept in its
\* untruncated form, built twice
C18_Witness ==
    /\ Delivered
    /\ ops = MaxDeliveries
    /\ Len(request.raw.transcript) = MaxUtter
    /\ request.raw.transcript[1].original_message = ""
    /\ request.raw.transcript[1].message # ""
    /\ request.raw.transcript[2].role = "unknown"
    /\ request.raw.transcript[2].original_message \notin {NoneStr, ""}
    /\ StoredText[1] = "User"
    /\ StoredText[3] = request.raw.transcript[2].original_message

(***************************************************************************)
(* C19: after every create or update of the claim store, the persisted     *)
(* record of each cached claim is the record written from the cached one:  *)
(* in no reachable state is a cached claim without its file, or its file   *)
(* different from what saving the cached claim writes, or the claim loaded *)
(* from the file different from the cached claim.                          *)
(***************************************************************************)
C19_PersistedEqualsCached ==
    \A claim_id \in DOMAIN claims_store :
       /\ claim_id \in DOMAIN claim_files
       /\ claim_files[claim_id] = ClaimData(claims_store[claim_id])
       /\ load_claim_from_file(Mem, claim_id) = claims_store[claim_id]

\* a claim created, given its transcript, filled in by the agent and approved
C19_Witness ==
    \E claim_id \in DOMAIN claims_store :
       /\ claims_store[claim_id].status = "approved"
       /\ claims_store[claim_id].full_name # NoneStr
       /\ claims_store[claim_id].updated_at >= 3
       /\ claim_files[claim_id].status = "approved"
       /\ claim_files[claim_id].updated_at = IsoFormat(claims_store[claim_id].updated_at)

(***************************************************************************)
(* C20: update(id, fields) on an unknown id returns the absence marker and *)
(* changes neither the cache nor the files; on a known id it returns the   *)
(* claim, having changed in the cache and in that claim's file only the    *)
(* provided fields that the claim record has and the update timestamp,     *)
(* whatever other names were provided, and it leaves every other claim and *)
(* every other claim's file unchanged.                                     *)
(***************************************************************************)
C20_UpdateFrame ==
    [][\A claim_id \in ClaimIds, kwargs \in UpdateKwargs :
          UpdateClaimCall(claim_id, kwargs)
          => IF claim_id \notin DOMAIN claims_store
             THEN /\ response'.status = "None"
                  /\ claims_store' = claims_store
                  /\ claim_files' = claim_files
             ELSE /\ response'.status = "claim"
                  /\ \A key \in DOMAIN claims_store[claim_id] \ {"updated_at"} :
                        claims_store'[claim_id][key] =
                            IF key \in DOMAIN kwargs THEN kwargs[key] ELSE claims_store[claim_id][key]
                  /\ claims_store'[claim_id].updated_at > claims_store[claim_id].updated_at
                  /\ claim_files'[claim_id] = ClaimData(claims_store'[claim_id])
                  /\ DOMAIN claims_store' = DOMAIN claims_store
                  /\ DOMAIN claim_files' = DOMAIN claim_files
                  /\ \A other \in DOMAIN claims_store \ {claim_id} :
                        /\ claims_store'[other] = claims_store[other]
                        /\ claim_files'[other] = claim_files[other]]_vars

(***************************************************************************)
(* Reads across a restart.                                                 *)
(***************************************************************************)
\* a step of GET /claim/{claim_id}
ReadStep == response'.op = "claim" /\ ops' = ops + 1

\* C21: a read returns the cached record when there is one; on a cache miss
\* it loads the persisted record, inserts it into the cache and returns it;
\* it answers not found iff neither the cache nor the files hold the id; and
\* a restart leaves, for every cached record, a file that loads back as that
\* record, so that a read after the restart returns the record last written.
C21_ReadContract ==
    [][ /\ ReadStep =>
             LET claim_id == response'.claim_id
             IN /\ claim_id \in DOMAIN claims_store =>
                      /\ response'.code = 200
                      /\ response'.body.claim = ClaimData(claims_store[claim_id])
                      /\ claims_store' = claims_store
                /\ (claim_id \notin DOMAIN claims_store /\ claim_id \in DOMAIN claim_files) =>
                      /\ response'.code = 200
                      /\ response'.body.claim = claim_files[claim_id]
                      /\ claims_store' = Put(claims_store, claim_id, load_claim_from_file(Mem, claim_id))
                      /\ ClaimData(claims_store'[claim_id]) = claim_files[claim_id]
                /\ response'.code = 404 <=>
                      (claim_id \notin DOMAIN claims_store /\ claim_id \notin DOMAIN claim_files)
                /\ response'.code = 404 => claims_store' = claims_store
                /\ claim_files' = claim_files
        /\ restarts' = restarts + 1 =>
             /\ claims_store' = <<>>
             /\ \A claim_id \in DOMAIN claims_store :
                   /\ claim_id \in DOMAIN claim_files'
                   /\ load_claim_from_file([claim_files |-> claim_files'], claim_id) = claims_store[claim_id]
      ]_vars

\* after a restart a read has loaded a claim that was updated before the
\* restart back into the cache, and answered with it
C21_Witness ==
    /\ restarts = 1
    /\ response.op = "claim"
    /\ response.code = 200
    /\ response.body.claim.updated_at.isoformat >= 2
    /\ response.body.claim.status = "approved"
    /\ response.claim_id \in DOMAIN claims_store
    /\ claims_store[response.claim_id].status = "approved"

(***************************************************************************)
(* The lookup by conversation after a restart.                             *)
(***************************************************************************)
OnDemand == "Claim created on-demand from saved conversation file"

\* the claims the lookup created from a conversation file
RecoveredClaims == {claim_id \in DOMAIN system_logs : HasMessage(system_logs[claim_id], OnDemand)}

RunOutcome(claim_id) ==
    \/ claim_id \in DOMAIN agent_outputs
    \/ HasMessage(LogsNow(claim_id), "Agent processing failed")

\* C22: a claim the lookup created from the persisted conversation file
\* eventually gets a decision record or a failure log, that is, agent
\* processing is started for it after the lookup returned.
C22_RecoveryResumesProcessing ==
    \A claim_id \in ClaimIds : (claim_id \in RecoveredClaims) ~> RunOutcome(claim_id)

(***************************************************************************)
(* Approval and rejection.                                                 *)
(***************************************************************************)
ApproveStep == response'.op = "approve" /\ ops' = ops + 1

ApprovedMessage == "Claim approved and initiated by human agent"

\* what a read of the claim returns in the state a step leaves
ReadBack(claim_id) ==
    get_claim_return([claims_store |-> claims_store', claim_files |-> claim_files'], claim_id)

\* C23: approving a known claim leaves it with status approved in the cache
\* and in its file, so that a read returns approved, and appends exactly one
\* entry to that claim's log and none to any other; approving an unknown
\* claim answers not found and changes no store and no log.
C23_Approve ==
    [][ ApproveStep =>
          LET claim_id == response'.claim_id
          IN /\ response'.code \in {200, 404}
             /\ response'.code = 200 <=> get_claim_found(Mem, claim_id)
             /\ response'.code = 200 =>
                   /\ ReadBack(claim_id).status = "approved"
                   /\ claims_store'[claim_id].status = "approved"
                   /\ claim_files'[claim_id].status = "approved"
                   /\ Len(Appended(claim_id)) = 1
                   /\ Appended(claim_id)[1].message = ApprovedMessage
                   /\ system_logs' = Put(system_logs, claim_id, LogsNow(claim_id) \o Appended(claim_id))
             /\ response'.code = 404 =>
                   UNCHANGED <<claims_store, claim_files, conversation_transcriptions,
                               conversation_files, conversation_to_claim, system_logs,
                               log_queues, agent_outputs>>
      ]_vars

\* a claim approved twice: two approval entries, status approved
C23_Witness ==
    /\ response.op = "approve"
    /\ response.code = 200
    /\ claims_store[response.claim_id].status = "approved"
    /\ Len(SelectSeq(LogsNow(response.claim_id), LAMBDA log : log.message = ApprovedMessage)) = 2

RejectStep == response'.op = "reject" /\ ops' = ops + 1

\* C24: rejecting a known claim is accepted, leaves the claim with the
\* terminal status denied and appends one entry to its log, on every call:
\* also for a claim that was approved and for one that was rejected before.
C24_Reject ==
    [][ (RejectStep /\ get_claim_found(Mem, response'.claim_id)) =>
          LET claim_id == response'.claim_id
          IN /\ response'.code = 200
             /\ ReadBack(claim_id).status = "denied"
             /\ Len(Appended(claim_id)) = 1
      ]_vars

(***************************************************************************)
(* Decision retrieval.                                                     *)
(***************************************************************************)
\* a step of GET /claim/coverage/{claim_id} or GET /claim/{claim_id}
RetrievalStep == response'.op \in {"coverage", "claim"} /\ ops' = ops + 1

\* what the two handlers answer for a known claim, from the decision record
\* stored for it or from its absence
RetrievalAnswer ==
    LET claim_id == response'.claim_id
        stored == claim_id \in DOMAIN agent_outputs
    IN /\ response'.code = 200
       /\ response'.op = "coverage" =>
             response'.body.coverage_decision =
                IF stored
                THEN [covered |-> agent_outputs[claim_id].coverage_covered,
                      reasoning |-> "coverage_reasoning",
                      confidence |-> agent_outputs[claim_id].coverage_confidence]
                ELSE [covered |-> FALSE, reasoning |-> StillProcessing, confidence |-> 0]
       /\ response'.op = "claim" =>
             IF stored
             THEN /\ response'.status = "completed"
                  /\ response'.body.agent_output = agent_outputs[claim_id]
             ELSE /\ response'.status = "processing"
                  /\ response'.body.message = StillProcessing
                  /\ "agent_output" \notin DOMAIN response'.body

\* C25 as stated: for a known claim, retrieval answers with the projection
\* of the stored decision record iff there is one and with the
\* still-processing placeholder otherwise, and changes no store.
C25_RetrievalChangesNoStore ==
    [][ (RetrievalStep /\ get_claim_found(Mem, response'.claim_id)) =>
          /\ RetrievalAnswer
          /\ UNCHANGED <<claims_store, claim_files, conversation_transcriptions,
                         conversation_files, conversation_to_claim, system_logs,
                         log_queues, agent_outputs>>
      ]_vars

\* C25, amended: the same answers; no store changes except that a claim
\* found only on file is loaded into the claim cache.
C25_RetrievalChangesOnlyCache ==
    [][ (RetrievalStep /\ get_claim_found(Mem, response'.claim_id)) =>
          /\ RetrievalAnswer
          /\ UNCHANGED <<claim_files, conversation_transcriptions,
                         conversation_files, conversation_to_claim, system_logs,
                         log_queues, agent_outputs>>
          /\ claims_store' =
                IF response'.claim_id \in DOMAIN claims_store THEN claims_store
                ELSE Put(claims_store, response'.claim_id,
                         load_claim_from_file(Mem, response'.claim_id))
      ]_vars

\* the coverage endpoint answered with the projection of a stored decision
C25_Witness ==
    /\ response.op = "coverage"
    /\ response.code = 200
    /\ response.claim_id \in DOMAIN agent_outputs
    /\ response.body.coverage_decision.covered
    /\ response.body.coverage_decision.confidence = 90

(***************************************************************************)
(* The decision record of a claim.                                         *)
(***************************************************************************)
Completed == "Agent processing completed successfully"

\* C26: agent_outputs holds at most one decision record per claim; a
\* delivery whose run returns replaces the claim's record by that run's
\* output as a whole; a delivery whose run fails, or that is gated (fewer
\* than MinEntries records), leaves the claim's record as it was; no step
\* changes the record of another claim.
C26_OneDecisionRecord ==
    [][ /\ \A c \in ConvIds, tr \in SysTranscripts, script \in SysScripts :
             WebhookStep(c, tr, script) =>
                LET claim_id == response'.claim_id
                    run == RunAgent(script, BuildTranscription(tr))
                IN /\ IF ShouldProcessAgent(tr) /\ run.pc = "returned"
                      THEN agent_outputs' = Put(agent_outputs, claim_id, run.output.output)
                      ELSE agent_outputs' = agent_outputs
                   /\ Len(tr) < MinEntries => agent_outputs' = agent_outputs
        /\ response'.op # "webhook" => agent_outputs' = agent_outputs
        /\ \A claim_id \in DOMAIN agent_outputs' :
              agent_outputs'[claim_id] \in {content.output : content \in {DecisionA, DecisionB}}
      ]_vars

\* a claim processed twice with success: the record of the run that used a
\* tool was replaced by the record of the other run
C26_Witness ==
    \E claim_id \in DOMAIN agent_outputs :
       /\ agent_outputs[claim_id] = DecisionA.output
       /\ HasMessage(LogsNow(claim_id), "Calling tool")
       /\ Len(SelectSeq(LogsNow(claim_id), LAMBDA log : log.message = Completed)) = 2
       /\ LogsNow(claim_id)[Len(LogsNow(claim_id))].message = Completed

(***************************************************************************)
(* Concurrent deliveries for one conversation.                             *)
(***************************************************************************)
\* two deliveries for the same conversation, each of which reached the
\* await of its body while the conversation had no claim, both answered
Raced(a, b) ==
    /\ a # b
    /\ inflight[a].pc = "done"
    /\ inflight[b].pc = "done"
    /\ inflight[a].unmapped
    /\ inflight[b].unmapped
    /\ inflight[a].answer.code = 200
    /\ inflight[b].answer.code = 200
    /\ ConversationOf(inflight[a].req) = ConversationOf(inflight[b].req)

ClaimsOfConversation(conversation_id) ==
    {claim_id \in DOMAIN claim_files : claim_files[claim_id].conversation_id = conversation_id}

\* C27 as stated: the two deliveries both take the create branch, and two
\* distinct claims exist for the conversation.
C27_BothCreate ==
    \A a, b \in Slots :
       Raced(a, b) =>
          /\ inflight[a].branch = "create"
          /\ inflight[b].branch = "create"
          /\ inflight[a].answer.claim_id # inflight[b].answer.claim_id

\* the answered deliveries for a conversation that took the create branch
Creators(conversation_id) ==
    {slot \in Slots : /\ inflight[slot].pc = "done"
                      /\ inflight[slot].answer.code = 200
                      /\ ConversationOf(inflight[slot].req) = conversation_id
                      /\ inflight[slot].branch = "create"}

\* C27, amended: two such deliveries never both take the create branch; of
\* the answered deliveries for a conversation exactly one created the claim
\* and every other one updated it; all answer with the same claim id, and
\* the conversation has one claim.
C27_OneCreates ==
    /\ \A a, b \in Slots :
          Raced(a, b) =>
             /\ ~(inflight[a].branch = "create" /\ inflight[b].branch = "create")
             /\ Cardinality(Creators(ConversationOf(inflight[a].req))) = 1
             /\ inflight[a].answer.claim_id = inflight[b].answer.claim_id
             /\ ClaimsOfConversation(ConversationOf(inflight[a].req)) = {inflight[a].answer.claim_id}
    /\ \A conversation_id \in ConvIds : Cardinality(ClaimsOfConversation(conversation_id)) <= 1

\* both deliveries were waiting for their bodies at the same time, and both
\* have been answered since
C27_Witness ==
    /\ Raced(1, 2)
    /\ inflight[1].branch = "create"
    /\ inflight[2].branch = "update"
    /\ claims_store[inflight[2].answer.claim_id].updated_at >= 2

(***************************************************************************)
(* The confidence of a decision record.                                    *)
(***************************************************************************)
\* C28: the decision record a run returns has coverage_confidence in the
\* closed interval [0, 1] (0 to 100 hundredths), whatever content the
\* backend returned.
C28_ConfidenceInUnitInterval ==
    agent.pc = "returned" =>
       /\ agent.output.output.coverage_confidence >= 0
       /\ agent.output.output.coverage_confidence <= 100

(***************************************************************************)
(* The claim of a conversation across a restart.                           *)
(***************************************************************************)
\* a delivery or a lookup by conversation that was answered with a claim id
ResolutionStep ==
    /\ response'.op \in {"webhook", "conversation_claim"}
    /\ ops' = ops + 1
    /\ response'.code = 200

\* C29: a delivery or a lookup for a conversation that has a persisted claim
\* is answered with the id of that claim and creates no claim, also when the
\* registries were emptied by a restart since the claim was persisted.
C29_ResolvesToPersistedClaim ==
    [][ (ResolutionStep /\ ClaimsOfConversation(response'.conversation_id) # {}) =>
          /\ response'.claim_id \in ClaimsOfConversation(response'.conversation_id)
          /\ DOMAIN claim_files' = DOMAIN claim_files
      ]_vars

(***************************************************************************)
(* The two kinds of completion request of a run.                           *)
(***************************************************************************)
\* C30: the first completion request of a run is a tool round (tools
\* offered, no response format); once a response has requested tools or a
\* first content response has been discarded, tools_used stays set and every
\* later request is a final round (response format enforced, no tools): the
\* requests of a run are one tool round followed by final rounds only.
C30_ToolRoundThenFinalRounds ==
    /\ [](Len(agent.modes) = agent.requests)
    /\ [](agent.requests >= 1 => agent.modes[1] = "tool")
    /\ [](\A i \in 2..Len(agent.modes) : agent.modes[i] = "final")
    /\ [](agent.discards >= 1 => agent.tools_used)
    /\ [][ /\ agent.tools_used => agent'.tools_used
           /\ (agent.pc = "loop" /\ agent'.requests = agent.requests + 1) =>
                 /\ agent'.modes[agent'.requests] = (IF agent.tools_used THEN "final" ELSE "tool")
                 /\ ResponseAt(agent.script, agent'.requests).tool_calls # <<>> => agent'.tools_used
                 /\ agent'.discards > agent.discards => agent'.tools_used
      ]_vars

\* a run whose first content was discarded, whose first final round was
\* answered with tool calls and which then asked a final round again
C30_Witness ==
    /\ agent.modes = <<"tool", "final", "final">>
    /\ agent.discards = 1
    /\ \E i \in 1..Len(agent.messages) : agent.messages[i].role = "tool"

(***************************************************************************)
(* Tool rounds of a run.                                                   *)
(***************************************************************************)
\* the response the backend gives to the request a step issues
NextResponse == ResponseAt(agent.script, agent.requests + 1)

\* a step that issues a request which is answered with tool calls
ToolRound ==
    /\ agent.pc = "loop"
    /\ LoopContinues(agent)
    /\ agent'.requests = agent.requests + 1
    /\ ~NextResponse.raises
    /\ NextResponse.tool_calls # <<>>

\* the turns a step appended to the message history
NewTurns == SubSeq(agent'.messages, Len(agent.messages) + 1, Len(agent'.messages))

\* the names of the tools a step called, in the order of its log entries
CalledNames ==
    LET new == SubSeq(agent'.logs, Len(agent.logs) + 1, Len(agent'.logs))
        calls == SelectSeq(new, LAMBDA log : log.message = "Calling tool")
    IN [i \in 1..Len(calls) |-> calls[i].s]

\* the first n calls were executed in order, each leaving its tool turn
\* directly after the assistant turn
ExecutedInOrder(n) ==
    LET tool_calls == NextResponse.tool_calls
    IN /\ Len(NewTurns) = n + 1
       /\ NewTurns[1].role = "assistant"
       /\ NewTurns[1].tool_calls = tool_calls
       /\ \A i \in 1..n : /\ NewTurns[i + 1].role = "tool"
                          /\ NewTurns[i + 1].tool_call_id = tool_calls[i].id
       /\ CalledNames = [i \in 1..n |-> tool_calls[i].name]

\* the calls whose arguments cannot be used: json.loads or the key lookup raises
Undecodable(tool_calls) == {i \in 1..Len(tool_calls) : tool_calls[i].arg = NoneStr}

\* C31 as stated: a response with k tool calls leaves exactly k tool turns,
\* the i-th with the i-th call's id, executed in order within the round,
\* and the run goes on to its next request.
C31_AllToolTurns ==
    [][ ToolRound =>
          /\ ExecutedInOrder(Len(NextResponse.tool_calls))
          /\ agent'.pc = "loop"
      ]_vars

\* C31, amended: the same when the arguments of every call can be decoded;
\* otherwise the calls before the first undecodable one are executed in
\* order, each leaving its turn, and the run fails there without a further
\* request.
C31_ToolTurnsUntilFailure ==
    [][ ToolRound =>
          LET tool_calls == NextResponse.tool_calls
              bad == Undecodable(tool_calls)
          IN IF bad = {}
             THEN /\ ExecutedInOrder(Len(tool_calls))
                  /\ agent'.pc = "loop"
                  /\ agent'.tools_used
             ELSE /\ \E first \in bad :
                        /\ \A i \in bad : first <= i
                        /\ ExecutedInOrder(first - 1)
                  /\ agent'.pc = "raised"
      ]_vars

\* a round answered with two tool calls left the two tool turns, ids in order
C31_Witness ==
    /\ agent.pc = "loop"
    /\ Len(agent.messages) >= 5
    /\ agent.messages[Len(agent.messages) - 2].role = "assistant"
    /\ agent.messages[Len(agent.messages) - 2].tool_calls = <<CallGarages, CallUnknown>>
    /\ agent.messages[Len(agent.messages) - 1].tool_call_id = CallGarages.id
    /\ agent.messages[Len(agent.messages)].tool_call_id = CallUnknown.id

(***************************************************************************)
(* The discarded first content.                                            *)
(***************************************************************************)
\* a step that issues a request answered with content and no tool calls
\* while no tool was used yet
PrematureContent ==
    /\ agent.pc = "loop"
    /\ LoopContinues(agent)
    /\ agent'.requests = agent.requests + 1
    /\ ~NextResponse.raises
    /\ NextResponse.tool_calls = <<>>
    /\ NextResponse.content # NoContent
    /\ ~agent.tools_used

\* C32: such a response is removed from the message history, which is then
\* what it was before the request; the round is not counted against the
\* ceiling; the run goes on and its next request is a final round; and a
\* run discards at most once.
C32_DiscardOnce ==
    /\ [][ PrematureContent =>
             /\ agent'.messages = agent.messages
             /\ agent'.iteration = agent.iteration
             /\ agent'.discards = agent.discards + 1
             /\ agent'.pc = "loop"
             /\ agent'.tools_used
             /\ RequestMode(agent') = "final"
             /\ agent'.output = NoContent
         ]_vars
    /\ [][ agent'.discards > agent.discards => PrematureContent ]_vars
    /\ [](agent.discards <= 1)
    /\ []((agent.discards = 1 /\ Len(agent.modes) >= 2) => agent.modes[2] = "final")

\* after the discard the run asked again in a final round, with the history
\* of the start and the round counted once
C32_Witness ==
    /\ agent.discards = 1
    /\ agent.modes = <<"tool", "final">>
    /\ agent.iteration = 1
    /\ agent.pc = "returned"
    /\ Len(agent.messages) = 3

(***************************************************************************)
(* Where a decision record comes from.                                     *)
(***************************************************************************)
\* a step in which the run returns
Returns == agent.pc = "loop" /\ agent'.pc = "returned"

\* C33: a run returns only on a response with content and without tool
\* calls that answered a final round, and what it returns is that content;
\* a step whose request is a tool round never returns.
C33_DecisionFromFinalRound ==
    /\ [][ Returns =>
             /\ agent'.requests = agent.requests + 1
             /\ agent'.modes[agent'.requests] = "final"
             /\ agent.tools_used
             /\ ~NextResponse.raises
             /\ NextResponse.tool_calls = <<>>
             /\ NextResponse.content # NoContent
             /\ NextResponse.content.kind = "decision"
             /\ agent'.output = NextResponse.content
         ]_vars
    /\ [][ (agent.pc = "loop" /\ ~agent.tools_used) => agent'.pc # "returned" ]_vars
    /\ [](agent.pc # "returned" => agent.output = NoContent)

\* a run that was given a decision together with tool calls in its tool
\* round, and returned the decision of the later final round instead
C33_Witness ==
    /\ agent.pc = "returned"
    /\ agent.output = DecisionB
    /\ agent.modes = <<"tool", "final">>
    /\ \E i \in 1..Len(agent.messages) :
          /\ agent.messages[i].role = "assistant"
          /\ agent.messages[i].tool_calls # <<>>
          /\ agent.messages[i].content = DecisionA

(***************************************************************************)
(* A tool call outside the registry.                                       *)
(***************************************************************************)
\* the positions of the calls that name neither get_policy_coverage nor get_garages
UnknownCalls(tool_calls) ==
    {i \in 1..Len(tool_calls) : tool_calls[i].name \notin {"get_policy_coverage", "get_garages"}}

\* the entries a step appended to the run's log
NewLogs == SubSeq(agent'.logs, Len(agent.logs) + 1, Len(agent'.logs))

DeliveredLogs(s) ==
    LET data == SelectSeq(streams[s].out, LAMBDA item : item.kind = "data")
    IN  [i \in 1..Len(data) |-> data[i].log]

(***************************************************************************)
(* C34: the log entries delivered to one subscription are the claim's      *)
(* history entries, each once and in append order: what a subscription has *)
(* delivered is a prefix of the history, whenever the entries were         *)
(* appended and whatever an earlier subscriber left in the queue.          *)
(***************************************************************************)
C34_EachEntryOnce ==
    \A s \in StreamIds :
       streams[s].pc \in {"replay", "wait", "closed"}
       => IsPrefix(DeliveredLogs(s), LogsOf(Mem, streams[s].claim_id))

(***************************************************************************)
(* Several subscriptions of one claim at once: the webhook on one          *)
(* conversation, the stream handler on every connection slot not used yet  *)
(* and the generators' steps.                                              *)
(***************************************************************************)
SubscriberNext ==
    \/ \E transcript_array \in StreamTranscripts, script \in StreamScripts :
          ReceiveTranscriptionWebhook(1, transcript_array, script) /\ ops < MaxDeliveries
    \/ \E claim_id \in KnownClaims : StreamLogs(claim_id) /\ streams[LowestFree].pc = "free"
    \/ \E s \in StreamIds : GeneratorReplay(s)
    \/ \E s \in StreamIds : GeneratorGet(s)
    \/ \E s \in StreamIds : GeneratorTimeout(s)

SubscriberSpec == Init /\ [][SubscriberNext]_vars

\* two subscriptions of one claim, both past their replay
OpenTogether(s, r) ==
    /\ s # r
    /\ streams[s].pc = "wait" /\ streams[r].pc = "wait"
    /\ streams[s].claim_id = streams[r].claim_id

(***************************************************************************)
(* C35: of several subscriptions of one claim that are open at once, each  *)
(* receives every appended entry: once the claim's queue is drained, each  *)
(* of them has delivered every entry of the history.                       *)
(***************************************************************************)
C35_EachSubscriberReceivesAll ==
    \A s, r \in StreamIds :
       (OpenTogether(s, r) /\ log_queues[streams[s].claim_id] = <<>>)
       => \A i \in 1..Len(LogsOf(Mem, streams[s].claim_id)) :
             \E j \in 1..Len(DeliveredLogs(s)) :
                DeliveredLogs(s)[j] = LogsOf(Mem, streams[s].claim_id)[i]

(***************************************************************************)
(* One subscription, opened at any moment between the deliveries.  The     *)
(* generator is a task of the event loop: a step it can take, it takes.    *)
(* Nothing makes the provider deliver again.                               *)
(***************************************************************************)
Generator ==
    \E s \in StreamIds : GeneratorReplay(s) \/ GeneratorGet(s) \/ GeneratorTimeout(s)

LateNext ==
    \/ \E transcript_array \in StreamTranscripts, script \in StreamScripts :
          ReceiveTranscriptionWebhook(1, transcript_array, script) /\ ops < MaxDeliveries
    \/ \E claim_id \in KnownClaims :
          StreamLogs(claim_id) /\ streams[LowestFree].pc = "free" /\ WithinStreams
    \/ Generator

LateFairSpec == Init /\ [][LateNext]_vars /\ WF_vars(Generator)

\* the handler has just answered the claim's first subscription, which created
\* the queue, and the claim's run had finished before
LateSubscription(s) ==
    /\ streams[s].pc = "start"
    /\ streams[s].claim_id \in DOMAIN agent_outputs
    /\ log_queues[streams[s].claim_id] = <<>>
    /\ \A r \in StreamIds \ {s} : streams[r].pc = "free"

(***************************************************************************)
(* C36: a subscription opened after the claim's run has finished, when no  *)
(* queue existed at the finish, is eventually closed.                      *)
(***************************************************************************)
C36_LateSubscriptionCloses ==
    \A s \in StreamIds : LateSubscription(s) ~> (streams[s].pc = "closed")

\* a secret is configured and the header lacks a non-empty t= or v0= part
Incomplete(req) ==
    /\ req.secret # NoSecret
    /\ req.header # <<>>
    /\ ~(Truthy(Carried(req).signature) /\ Truthy(Carried(req).timestamp))

\* the same body sent without a signature header
HeaderlessTwin(req) == Request(req.secret, <<>>, req.raw)

(***************************************************************************)
(* C37: with a secret configured, a signature header that lacks the t=     *)
(* part or the v0= part, or has one of them empty, is treated like a       *)
(* missing header: the request never gets the answer of a failed           *)
(* verification, and the handler does with its body and answers exactly    *)
(* what it does and answers for the same body sent without the header.     *)
(***************************************************************************)
C37_IncompleteHeaderUnchecked ==
    /\ []((WebhookAnswered /\ Incomplete(request))
          => ~RejectedByVerification /\ response.code # 401)
    /\ [][\A script \in StreamScripts :
             (Incomplete(request') /\ ReceiveWebhookRequest(request', script))
             => /\ Verification(request') = "unchecked"
                /\ Answer(HeaderlessTwin(request'), script)]_vars

\* a delivery whose header holds a signature under another key and no
\* timestamp was processed by the agent, as was one with a stale timestamp
\* and no signature
C37_Witness ==
    /\ WebhookAnswered
    /\ Incomplete(request)
    /\ Truthy(Carried(request).signature)
    /\ ~Truthy(Carried(request).timestamp)
    /\ response.code = 200
    /\ response.processed
    /\ response.claim_id \in DOMAIN agent_outputs

\* the members of ClaimStatus the handlers write
WrittenStatuses == {"pending", "processing", "approved"}

\* this step is a delivery whose run returned a decision
RunCompleted ==
    /\ response'.op = "webhook"
    /\ response'.code = 200
    /\ response'.processed
    /\ Appended(response'.claim_id) # <<>>
    /\ LogsNext(response'.claim_id)[Len(LogsNext(response'.claim_id))].message = Completed

(***************************************************************************)
(* C38: whatever deliveries, recoveries, approvals, rejections and         *)
(* restarts happen, a claim's status, in the registry and in its file, is  *)
(* pending, processing or approved, never covered or denied; and a         *)
(* delivery whose run returned a decision leaves the claim's status at     *)
(* processing.                                                             *)
(***************************************************************************)
C38_StatusesWritten ==
    /\ [](/\ \A claim_id \in DOMAIN claims_store :
                claims_store[claim_id].status \in WrittenStatuses
          /\ \A claim_id \in DOMAIN claim_files :
                claim_files[claim_id].status \in WrittenStatuses)
    /\ [][RunCompleted
          => /\ claims_store'[response'.claim_id].status = "processing"
             /\ claim_files'[response'.claim_id].status = "processing"]_vars

\* an approved claim was delivered again, its run returned a decision that
\* covers the event, and its status is processing
C38_Witness ==
    /\ response.op = "webhook"
    /\ response.processed
    /\ response.claim_id \in DOMAIN agent_outputs
    /\ agent_outputs[response.claim_id].coverage_covered
    /\ HasMessage(LogsNow(response.claim_id), "Claim approved and initiated by human agent")
    /\ LogsNow(response.claim_id)[Len(LogsNow(response.claim_id))].message = Completed
    /\ claims_store[response.claim_id].status = "processing"
    /\ claim_files[response.claim_id].status = "processing"

(***************************************************************************)
(* Deliveries in flight for one conversation next to one subscription of   *)
(* its claim: the event loop runs one coroutine at a time and switches     *)
(* only where the running one awaits.                                      *)
(***************************************************************************)
LoopNext ==
    \/ \E slot \in Slots, transcript_array \in StreamTranscripts, script \in StreamScripts :
          Arrive(slot, PlainRequest(1, transcript_array), script)
    \/ \E slot \in Slots : Resume(slot)
    \/ \E claim_id \in KnownClaims :
          StreamLogs(claim_id) /\ \A s \in StreamIds : streams[s].pc = "free"
    \/ Generator

LoopSpec == Init /\ [][LoopNext]_vars

Starting == "Starting unified agent processing..."
Failed == "Agent processing failed"

\* the runs started minus the runs finished in a history
OpenRuns(logs) ==
    Len(SelectSeq(logs, LAMBDA log : log.message = Starting))
       - Len(SelectSeq(logs, LAMBDA log : log.message \in {Completed, Failed}))

\* the entries of reconciliations and runs come one whole handler after the
\* other: a run's entries end with its outcome before the next reconciliation
\* or run begins
Bracketed(logs) ==
    /\ OpenRuns(logs) = 0
    /\ \A i \in 1..Len(logs) :
          /\ OpenRuns(SubSeq(logs, 1, i)) \in {0, 1}
          /\ (i > 1 /\ OpenRuns(SubSeq(logs, 1, i - 1)) = 1)
             => logs[i].message \notin {Starting, "Claim created for conversation",
                                        "Claim updated with new transcription",
                                        "Waiting for complete transcript"}

(***************************************************************************)
(* C39: the webhook handler runs from the end of its body read to its      *)
(* return without a suspension: the step that resumes a handler leaves     *)
(* every stream and every other handler in flight where they were, in      *)
(* every state a subscriber can read, the runs that have logged into a     *)
(* history have all finished, what a subscriber has received holds no run  *)
(* without its outcome in the history, and the entries of two handlers are *)
(* never interleaved.                                                      *)
(***************************************************************************)
C39_HandlerNotSuspended ==
    /\ [][\A slot \in Slots :
             (inflight[slot].pc = "await_body" /\ inflight'[slot].pc = "done")
             => /\ streams' = streams
                /\ \A other \in Slots \ {slot} : inflight'[other] = inflight[other]]_vars
    /\ [](\A claim_id \in DOMAIN system_logs : Bracketed(system_logs[claim_id]))
    /\ [](\A s \in StreamIds :
             streams[s].pc \in {"replay", "wait", "closed"}
             => \A i \in 1..Len(DeliveredLogs(s)) :
                   DeliveredLogs(s)[i].message = Starting
                   => \E j \in 1..Len(LogsNow(streams[s].claim_id)) :
                         /\ LogsNow(streams[s].claim_id)[j].message \in {Completed, Failed}
                         /\ LogsNow(streams[s].claim_id)[j].timestamp
                               > DeliveredLogs(s)[i].timestamp)

\* two deliveries were in flight together; a subscriber has received from the
\* queue the first entry of the run of the one resumed last
C39_Witness ==
    \E s \in StreamIds :
       /\ streams[s].pc = "wait"
       /\ \A slot \in Slots : inflight[slot].pc = "done" /\ inflight[slot].answer.processed
       /\ Len(DeliveredLogs(s)) > streams[s].n0
       /\ \E i \in (streams[s].n0 + 1)..Len(DeliveredLogs(s)) :
             /\ DeliveredLogs(s)[i].message = Starting
             /\ OpenRuns(SubSeq(DeliveredLogs(s), 1, Len(DeliveredLogs(s)))) = 1

====
